---- MODULE Spec2Model ----
(***************************************************************************)
(* A model of the two scraper scripts of nba-letterbox:                    *)
(*   scripts/scrape_box_scores.py   (box scores, playoff-round backfill)   *)
(*   scripts/scrape_players.py      (rosters, season averages)             *)
(*                                                                         *)
(* Text is a sequence of one-character strings, so that strip(), lower(),  *)
(* float() and the slug pattern are computed rather than assumed.  An      *)
(* optional text (Python's None or a str) is [some, t]; a number or None   *)
(* coming out of safe_int / safe_float is [k, v].                          *)
(***************************************************************************)
EXTENDS Integers, Sequences, FiniteSets, TLC

VARIABLES
    inp,            \* input of the pure function under study (a parsed page)
    out,            \* its result, Pending until the function has been applied
    script,         \* "box" or "players": the script that runs ("" for none)
    args,           \* its command line: season, limit, backfill, team, averages
    db_seasons,     \* seasons collection: the years that have a row
    db_teams,       \* teams collection: abbreviation -> id
    db_games,       \* games collection: id -> row; row.cols holds the scraped columns
    db_box_scores,  \* box_scores collection: the conflict keys written
    db_players,     \* players collection: the conflict keys written
    db_averages,    \* player_season_averages collection: the conflict keys written
    pc,             \* where the script stands
    work,           \* the work list of the current loop
    idx,            \* index into work of the item in progress
    success,        \* the running success counter
    page,           \* the soup of the page fetched last
    batch,          \* rows accumulated for the next upsert
    update_data,    \* the pending update of the games row
    all_players,    \* all_players, then the list scrape_rosters returned
    log             \* the external requests and writes issued so far, in order

pure_vars == <<inp, out>>

run_vars == <<script, args, db_seasons, db_teams, db_games, db_box_scores, db_players,
              db_averages, pc, work, idx, success, page, batch, update_data, all_players, log>>

vars == <<inp, out, script, args, db_seasons, db_teams, db_games, db_box_scores,
          db_players, db_averages, pc, work, idx, success, page, batch, update_data,
          all_players, log>>

\* the sequences over S of length at most n
RECURSIVE SeqsUpTo(_, _)
SeqsUpTo(S, n) ==
    IF n = 0 THEN {<<>>}
    ELSE LET shorter == SeqsUpTo(S, n - 1)
         IN  shorter \cup {Append(q, x) : q \in {r \in shorter : Len(r) = n - 1}, x \in S}

-----------------------------------------------------------------------------
(* Text primitives                                                         *)

Digits == {"0", "1", "2", "3", "4", "5", "6", "7", "8", "9"}

\* the characters str.strip() removes ("nbsp" stands for U+00A0)
WhiteSpace == {" ", "\t", "nbsp"}

DigitVal(c) ==
    CASE c = "0" -> 0 [] c = "1" -> 1 [] c = "2" -> 2 [] c = "3" -> 3
      [] c = "4" -> 4 [] c = "5" -> 5 [] c = "6" -> 6 [] c = "7" -> 7
      [] c = "8" -> 8 [] c = "9" -> 9

\* str.lower() on one character
LowerChar(c) ==
    CASE c = "A" -> "a" [] c = "B" -> "b" [] c = "C" -> "c" [] c = "D" -> "d"
      [] c = "E" -> "e" [] c = "F" -> "f" [] c = "G" -> "g" [] c = "H" -> "h"
      [] c = "I" -> "i" [] c = "J" -> "j" [] c = "K" -> "k" [] c = "L" -> "l"
      [] c = "M" -> "m" [] c = "N" -> "n" [] c = "O" -> "o" [] c = "P" -> "p"
      [] c = "Q" -> "q" [] c = "R" -> "r" [] c = "S" -> "s" [] c = "T" -> "t"
      [] c = "U" -> "u" [] c = "V" -> "v" [] c = "W" -> "w" [] c = "X" -> "x"
      [] c = "Y" -> "y" [] c = "Z" -> "z"
      [] OTHER -> c

Lower(t) == [i \in 1..Len(t) |-> LowerChar(t[i])]

\* str.strip(): drop leading and trailing white space
RECURSIVE LStrip(_)
LStrip(t) == IF t # <<>> /\ Head(t) \in WhiteSpace THEN LStrip(Tail(t)) ELSE t

RECURSIVE RStrip(_)
RStrip(t) ==
    IF t # <<>> /\ t[Len(t)] \in WhiteSpace
    THEN RStrip(SubSeq(t, 1, Len(t) - 1))
    ELSE t

Strip(t) == RStrip(LStrip(t))

Some(t) == [some |-> TRUE, t |-> t]

Absent == [some |-> FALSE, t |-> <<>>]

\* dict.get(key) on a dict of texts
Get(d, key) == IF key \in DOMAIN d THEN Some(d[key]) ELSE Absent

-----------------------------------------------------------------------------
(* Numbers: float(), int(float()), round(float(), 3)                       *)

None == [k |-> "none", v |-> 0]

IntV(n) == [k |-> "int", v |-> n]

Raised == [k |-> "raise", v |-> 0]

RECURSIVE DigitsVal(_)
DigitsVal(t) ==
    IF t = <<>> THEN 0 ELSE 10 * DigitsVal(SubSeq(t, 1, Len(t) - 1)) + DigitVal(t[Len(t)])

RECURSIVE Pow10(_)
Pow10(n) == IF n = 0 THEN 1 ELSE 10 * Pow10(n - 1)

AllDigits(t) == \A i \in 1..Len(t) : t[i] \in Digits

\* index of the first "." of t, 0 when there is none
DotAt(t) ==
    IF \E i \in 1..Len(t) : t[i] = "."
    THEN CHOOSE i \in 1..Len(t) : t[i] = "." /\ \A j \in 1..(i - 1) : t[j] # "."
    ELSE 0

\* float(str) on a decimal literal without exponent: the text is stripped, an
\* optional sign is read, then "inf" / "infinity" / "nan" in any case, or
\* digits with an optional point and at least one digit.  The result is
\* [k |-> "fin", sign, num, scale] for sign * num / 10^scale, "inf" or "nan",
\* or "error" for ValueError.
ParseFloat(text) ==
    LET s    == Strip(text)
        sgn  == IF s # <<>> /\ Head(s) = "-" THEN -1 ELSE 1
        body == IF s # <<>> /\ Head(s) \in {"-", "+"} THEN Tail(s) ELSE s
        low  == Lower(body)
        dot  == DotAt(body)
        ip   == IF dot = 0 THEN body ELSE SubSeq(body, 1, dot - 1)
        fp   == IF dot = 0 THEN <<>> ELSE SubSeq(body, dot + 1, Len(body))
        bad  == [k |-> "error", sign |-> 1, num |-> 0, scale |-> 0]
    IN  IF low \in {<<"i", "n", "f">>, <<"i", "n", "f", "i", "n", "i", "t", "y">>}
        THEN [k |-> "inf", sign |-> sgn, num |-> 0, scale |-> 0]
        ELSE IF low = <<"n", "a", "n">>
        THEN [k |-> "nan", sign |-> sgn, num |-> 0, scale |-> 0]
        ELSE IF AllDigits(ip) /\ AllDigits(fp) /\ Len(ip) + Len(fp) > 0
        THEN [k |-> "fin", sign |-> sgn, num |-> DigitsVal(ip \o fp), scale |-> Len(fp)]
        ELSE bad

\* safe_int: None for None / blank text / ValueError; int() truncates toward
\* zero; int(nan) is a ValueError (caught); int(inf) is an OverflowError,
\* which the except clause does not name, so it propagates.
safe_int(val) ==
    IF ~val.some \/ Strip(val.t) = <<>> THEN None
    ELSE LET f == ParseFloat(val.t)
         IN  CASE f.k = "fin"   -> IntV(f.sign * (f.num \div Pow10(f.scale)))
               [] f.k = "inf"   -> Raised
               [] f.k = "nan"   -> None
               [] f.k = "error" -> None

IsRaised(x) == x.k = "raise"

\* round(x, 3) of num / 10^scale, in thousandths.  With more than 3 decimals
\* the nearest thousandth is taken; an exact decimal tie is decided in Python
\* by the binary double and is taken here to the even neighbour.
RoundTo3(num, scale) ==
    IF scale <= 3 THEN num * Pow10(3 - scale)
    ELSE LET unit == Pow10(scale - 3)
             q    == num \div unit
             r    == num % unit
         IN  IF 2 * r > unit \/ (2 * r = unit /\ q % 2 = 1) THEN q + 1 ELSE q

\* safe_float: None for None / blank text / ValueError, else round(float, 3):
\* [k |-> "float", v |-> thousandths]; float("inf") and float("nan") are
\* accepted by float() and returned as they are
safe_float(val) ==
    IF ~val.some \/ Strip(val.t) = <<>> THEN None
    ELSE LET f == ParseFloat(val.t)
         IN  CASE f.k = "fin"   -> [k |-> "float", v |-> f.sign * RoundTo3(f.num, f.scale)]
               [] f.k = "inf"   -> [k |-> "inf", v |-> f.sign]
               [] f.k = "nan"   -> [k |-> "nan", v |-> 0]
               [] f.k = "error" -> None

\* t starts with prefix / contains sub
StartsWith(t, prefix) ==
    Len(t) >= Len(prefix) /\ SubSeq(t, 1, Len(prefix)) = prefix

Contains(t, sub) ==
    \E i \in 1..(Len(t) - Len(sub) + 1) : SubSeq(t, i, i + Len(sub) - 1) = sub

\* str.replace(sub, ""): every occurrence of sub removed, left to right
RECURSIVE Remove(_, _)
Remove(t, sub) ==
    IF t = <<>> THEN <<>>
    ELSE IF StartsWith(t, sub) THEN Remove(SubSeq(t, Len(sub) + 1, Len(t)), sub)
    ELSE <<Head(t)>> \o Remove(Tail(t), sub)

\* str.split(",")[0]
BeforeComma(t) ==
    IF \E i \in 1..Len(t) : t[i] = ","
    THEN SubSeq(t, 1, (CHOOSE i \in 1..Len(t) : t[i] = "," /\ \A j \in 1..(i - 1) : t[j] # ",") - 1)
    ELSE t

-----------------------------------------------------------------------------
(* Parsed markup.  A cell is [tag, stat, text]: the element name, its       *)
(* data-stat attribute (a text, NoStat when it has none) and its raw text.  *)
(* A row is [cls, cells] with cls the set of its classes; a table is        *)
(* [thead, tbody], each [present, rows]; a page (soup) maps the ids of its  *)
(* tables to the tables.                                                    *)

NoStat == <<>>

Td(stat, text) == [tag |-> "td", stat |-> stat, text |-> text]

Th(stat, text) == [tag |-> "th", stat |-> stat, text |-> text]

Tr(cls, cells) == [cls |-> cls, cells |-> cells]

NoHead == [present |-> FALSE, rows |-> <<>>]

Thead(rows) == [present |-> TRUE, rows |-> rows]

Body(rows) == [present |-> TRUE, rows |-> rows]

NoBody == [present |-> FALSE, rows |-> <<>>]

\* get_text(strip=True) of a cell
get_text(cell) == Strip(cell.text)

\* row.find_all("td")
TdCells(row) == SelectSeq(row.cells, LAMBDA c : c.tag = "td")

\* soup.find("table", {"id": id}): soup.tables maps the ids of the tables of
\* the page to the tables
HasTable(soup, id) == id \in DOMAIN soup.tables

Pending == [k |-> "pending", d |-> <<>>]

NoResult == [k |-> "none", d |-> <<>>]

Exception == [k |-> "raise", d |-> <<>>]

Dict(d) == [k |-> "dict", d |-> d]

NoSoup == [tables |-> <<>>, title |-> Absent, scorebox |-> [present |-> FALSE, divs |-> <<>>],
           att |-> Absent]

NoArgs == [season |-> 0, limit |-> 0, backfill |-> FALSE, team |-> "", averages |-> FALSE]

\* no script runs: the state of the run variables while a pure function is studied
NoRun ==
    /\ script = "" /\ args = NoArgs
    /\ db_seasons = {} /\ db_teams = <<>> /\ db_games = <<>>
    /\ db_box_scores = {} /\ db_players = {} /\ db_averages = {}
    /\ pc = "" /\ work = <<>> /\ idx = 0 /\ success = 0
    /\ page = NoSoup /\ batch = <<>> /\ update_data = <<>> /\ all_players = <<>>
    /\ log = <<>>

-----------------------------------------------------------------------------
(* parse_box_score_table                                                   *)

PLAYER == <<"p", "l", "a", "y", "e", "r">>

REASON == <<"r", "e", "a", "s", "o", "n">>

TEAM_TOTALS == <<"t", "e", "a", "m", " ", "t", "o", "t", "a", "l", "s">>

TOTALS == <<"t", "o", "t", "a", "l", "s">>

\* th.get("data-stat", th.get_text(strip=True)) for the th cells of the row
HeaderCols(header_row) ==
    LET ths == SelectSeq(header_row, LAMBDA c : c.tag = "th")
    IN  [i \in 1..Len(ths) |-> IF ths[i].stat # NoStat THEN ths[i].stat ELSE get_text(ths[i])]

\* row_data: cols[i] -> text of cell i for i < len(cols); a label that occurs
\* twice keeps the text of the later cell
RowData(cells, cols) ==
    LET n == IF Len(cells) < Len(cols) THEN Len(cells) ELSE Len(cols)
        last(key) == CHOOSE i \in 1..n : cols[i] = key /\ \A j \in (i + 1)..n : cols[j] # key
    IN  [key \in {cols[i] : i \in 1..n} |-> get_text(cells[last(key)])]

\* tr.find("td", {"data-stat": "reason"})
HasReasonCell(tr) == \E i \in 1..Len(tr.cells) : tr.cells[i].tag = "td" /\ tr.cells[i].stat = REASON

\* row_data.get("player", "")
PlayerName(row_data) == IF PLAYER \in DOMAIN row_data THEN row_data[PLAYER] ELSE <<>>

IsTotals(name) == Lower(name) \in {TEAM_TOTALS, TOTALS}

\* the same test with the name compared as written, not lower-cased
SkipRow_CaseSensitive(tr, cols) ==
    \/ tr.cells = <<>>
    \/ HasReasonCell(tr)
    \/ PlayerName(RowData(tr.cells, cols)) = <<>>
    \/ PlayerName(RowData(tr.cells, cols)) \in {TEAM_TOTALS, TOTALS}

\* the row is skipped: no cells, a "reason" cell, no name, or a totals row
SkipRow(tr, cols) ==
    \/ tr.cells = <<>>
    \/ HasReasonCell(tr)
    \/ PlayerName(RowData(tr.cells, cols)) = <<>>
    \/ IsTotals(PlayerName(RowData(tr.cells, cols)))

\* the same loop with the divider skipped but seen_reserves left as it was
RECURSIVE ParseRows_FlagNotSet(_, _, _)
ParseRows_FlagNotSet(trs, cols, seen_reserves) ==
    IF trs = <<>> THEN <<>>
    ELSE LET tr == Head(trs)
         IN  IF "thead" \in tr.cls THEN ParseRows_FlagNotSet(Tail(trs), cols, seen_reserves)
             ELSE IF SkipRow(tr, cols) THEN ParseRows_FlagNotSet(Tail(trs), cols, seen_reserves)
             ELSE <<[data |-> RowData(tr.cells, cols), starter |-> ~seen_reserves]>>
                  \o ParseRows_FlagNotSet(Tail(trs), cols, seen_reserves)

\* the loop over tbody.find_all("tr"), seen_reserves carried along
RECURSIVE ParseRows(_, _, _)
ParseRows(trs, cols, seen_reserves) ==
    IF trs = <<>> THEN <<>>
    ELSE LET tr == Head(trs)
         IN  IF "thead" \in tr.cls THEN ParseRows(Tail(trs), cols, TRUE)
             ELSE IF SkipRow(tr, cols) THEN ParseRows(Tail(trs), cols, seen_reserves)
             ELSE <<[data |-> RowData(tr.cells, cols), starter |-> ~seen_reserves]>>
                  \o ParseRows(Tail(trs), cols, seen_reserves)

Rows(rows) == [k |-> "list", rows |-> rows]

RowsRaised == [k |-> "raise", rows |-> <<>>]

\* table.find("thead") is None (AttributeError on .find_all) or the thead has
\* no tr (IndexError on header_rows[-1]): neither is caught
parse_box_score_table(soup, table_id) ==
    IF ~HasTable(soup, table_id) THEN Rows(<<>>)
    ELSE LET table == soup.tables[table_id]
         IN  IF ~table.thead.present \/ table.thead.rows = <<>> THEN RowsRaised
             ELSE IF ~table.tbody.present THEN Rows(<<>>)
             ELSE Rows(ParseRows(table.tbody.rows,
                                 HeaderCols(table.thead.rows[Len(table.thead.rows)]),
                                 FALSE))

-----------------------------------------------------------------------------
(* Box-score tables: the inputs of parse_box_score_table                   *)

MaxRows == 3

MP == <<"m", "p">>

PTS == <<"p", "t", "s">>

NameAl == <<"A", "l", " ", "F", "o", "r", "d">>

NameBo == <<" ", "B", "o", " ", "C", "r", "y", " ">>

NameCy == <<"C", "y", " ", "D", "o", "e">>

T12 == <<"1", "2">>

T31 == <<"3", "1", ":", "0", "5">>

\* the kinds of body rows: the Reserves divider, two players, a player who
\* did not play, the totals row in two spellings, a row without a name and a
\* row without cells
SeparatorRow ==
    Tr({"thead"}, <<Th(PLAYER, <<"R", "e", "s", "e", "r", "v", "e", "s">>), Th(MP, <<"M", "P">>)>>)

PlayerRow(name) == Tr({}, <<Th(PLAYER, name), Td(MP, T31), Td(PTS, T12)>>)

DnpRow ==
    Tr({}, <<Th(PLAYER, NameCy),
             Td(REASON, <<"D", "i", "d", " ", "N", "o", "t", " ", "P", "l", "a", "y">>)>>)

TotalsRow == PlayerRow(<<"T", "e", "a", "m", " ", "T", "o", "t", "a", "l", "s">>)

UpperTotalsRow == PlayerRow(<<"T", "O", "T", "A", "L", "S", " ">>)

RowKinds ==
    { SeparatorRow, PlayerRow(NameAl), PlayerRow(NameBo), DnpRow, TotalsRow,
      UpperTotalsRow, PlayerRow(<<" ">>), Tr({}, <<>>) }

\* a two-row header (group row, then the row with the column keys), and a
\* one-row header with fewer columns than the rows have cells
GroupRow == <<Th(NoStat, <<>>), Th(NoStat, <<"B", "a", "s", "i", "c">>)>>

KeyRow3 == <<Th(PLAYER, <<"S", "t", "a", "r", "t", "e", "r", "s">>), Th(MP, <<"M", "P">>),
             Th(PTS, <<"P", "T", "S">>)>>

KeyRow2 == <<Th(MP, <<"M", "P">>), Th(PLAYER, <<"S", "t", "a", "r", "t", "e", "r", "s">>)>>

TableHeads == { Thead(<<GroupRow, KeyRow3>>), Thead(<<KeyRow2>>) }

BrokenHeads == { NoHead, Thead(<<>>) }

BasicId == "box-BOS-game-basic"

TableSoups ==
    { [tables |-> <<>>] }
    \cup { [tables |-> (BasicId :> [thead |-> h, tbody |-> NoBody])]
            : h \in TableHeads \cup BrokenHeads }
    \cup { [tables |-> (BasicId :> [thead |-> h, tbody |-> Body(b)])]
            : h \in TableHeads \cup BrokenHeads, b \in SeqsUpTo(RowKinds, MaxRows) }

InitTable ==
    /\ inp \in TableSoups
    /\ out = Pending
    /\ NoRun

ParseBoxScoreTable ==
    /\ out = Pending
    /\ out' = parse_box_score_table(inp, BasicId)
    /\ UNCHANGED inp
    /\ UNCHANGED run_vars

NextTable == ParseBoxScoreTable

SpecTable == InitTable /\ [][NextTable]_vars

\* the table parsed has a usable header and a body
TableParsed ==
    /\ out.k = "list"
    /\ HasTable(inp, BasicId)
    /\ inp.tables[BasicId].tbody.present

TableBody == inp.tables[BasicId].tbody.rows

\* the column keys: the data-stat attributes of the last header row
TableKeys ==
    LET hr == inp.tables[BasicId].thead.rows[Len(inp.tables[BasicId].thead.rows)]
    IN  [i \in 1..Len(hr) |-> hr[i].stat]

\* the name of body row i: the stripped text of its cell in the player column
NameOfRow(i) ==
    LET c == CHOOSE j \in 1..Len(TableKeys) : TableKeys[j] = PLAYER
    IN  IF c <= Len(TableBody[i].cells) THEN Strip(TableBody[i].cells[c].text) ELSE <<>>

IsSeparator(i) == "thead" \in TableBody[i].cls

IsDidNotPlay(i) ==
    \E c \in 1..Len(TableBody[i].cells) :
        TableBody[i].cells[c].tag = "td" /\ TableBody[i].cells[c].stat = REASON

\* the body rows that are to produce a record
KeptRows ==
    { i \in 1..Len(TableBody) :
        /\ ~IsSeparator(i)
        /\ ~IsDidNotPlay(i)
        /\ NameOfRow(i) # <<>>
        /\ Lower(NameOfRow(i)) \notin {TEAM_TOTALS, TOTALS} }

\* the k-th smallest element of S
KthOf(S, k) == CHOOSE i \in S : Cardinality({j \in S : j < i}) = k - 1

\* C9: every output record that comes from a row before the separator row is
\* tagged starter, every record from a row after it non-starter, and the
\* separator row itself yields no record.
C9_StarterTags ==
    TableParsed =>
        /\ Len(out.rows) = Cardinality(KeptRows)
        /\ \A k \in 1..Len(out.rows) :
             LET i == KthOf(KeptRows, k)
             IN  /\ ~IsSeparator(i)
                 /\ out.rows[k].data[PLAYER] = NameOfRow(i)
                 /\ out.rows[k].starter = ~(\E j \in 1..(i - 1) : IsSeparator(j))

\* a starter, the divider, a reserve: two records, tagged TRUE then FALSE
C9_Witness ==
    /\ TableParsed
    /\ Len(TableBody) = 3
    /\ ~IsSeparator(1) /\ IsSeparator(2) /\ ~IsSeparator(3)
    /\ Len(out.rows) = 2
    /\ out.rows[1].starter /\ ~out.rows[2].starter

\* C10: the output is exactly the ordered subsequence of the body rows that
\* are not separators, have no "reason" cell, and whose player name is not
\* empty and is not "Team Totals" / "Totals" in any case: one record per such
\* row, in the original order, holding the row's labelled cell texts.
C10_ExactSubsequence ==
    TableParsed =>
        /\ Len(out.rows) = Cardinality(KeptRows)
        /\ \A k \in 1..Len(out.rows) :
             LET tr == TableBody[KthOf(KeptRows, k)]
             IN  \A c \in 1..Len(TableKeys) :
                    c <= Len(tr.cells) =>
                        /\ TableKeys[c] \in DOMAIN out.rows[k].data
                        /\ out.rows[k].data[TableKeys[c]] = Strip(tr.cells[c].text)

\* a did-not-play row, a totals row and a player: only the player is output
C10_Witness ==
    /\ TableParsed
    /\ Len(TableBody) = 3
    /\ IsDidNotPlay(1)
    /\ ~IsDidNotPlay(2) /\ Lower(NameOfRow(2)) = TOTALS
    /\ KeptRows = {3}
    /\ Len(out.rows) = 1
    /\ out.rows[1].data[PLAYER] = NameOfRow(3)

-----------------------------------------------------------------------------
(* parse_quarter_scores                                                    *)

\* parse_row: safe_int of the stripped text of every td of the row
parse_row(row) ==
    [i \in 1..Len(TdCells(row)) |-> safe_int(Some(get_text(TdCells(row)[i])))]

\* sum(s for s in scores if s is not None)
RECURSIVE SumNotNone(_)
SumNotNone(scores) ==
    IF scores = <<>> THEN 0
    ELSE (IF Head(scores).k = "int" THEN Head(scores).v ELSE 0) + SumNotNone(Tail(scores))

\* the same loop body with the slice scores[4:] (the Total column summed too)
QuarterDict_SumsTotal(prefix, scores) ==
    LET q(i)     == IF i <= Len(scores) THEN scores[i] ELSE None
        ot_total == SumNotNone(SubSeq(scores, 5, Len(scores)))
        ot       == IF Len(scores) > 5 /\ ot_total > 0 THEN IntV(ot_total) ELSE None
    IN  (prefix \o "_q1") :> q(1) @@ (prefix \o "_q2") :> q(2) @@
        (prefix \o "_q3") :> q(3) @@ (prefix \o "_q4") :> q(4) @@
        (prefix \o "_ot") :> ot

\* the body of the loop over ("away", away_scores), ("home", home_scores):
\* q1..q4 by position, overtime the sum of scores[4:-1] when there are more
\* than 5 cells, None when that sum is not positive
QuarterDict(prefix, scores) ==
    LET q(i)     == IF i <= Len(scores) THEN scores[i] ELSE None
        ot_total == SumNotNone(SubSeq(scores, 5, Len(scores) - 1))
        ot       == IF Len(scores) > 5 /\ ot_total > 0 THEN IntV(ot_total) ELSE None
    IN  (prefix \o "_q1") :> q(1) @@ (prefix \o "_q2") :> q(2) @@
        (prefix \o "_q3") :> q(3) @@ (prefix \o "_q4") :> q(4) @@
        (prefix \o "_ot") :> ot

AnyRaised(scores) == \E i \in 1..Len(scores) : IsRaised(scores[i])

parse_quarter_scores(soup) ==
    IF ~HasTable(soup, "line_score") THEN NoResult
    ELSE LET table == soup.tables["line_score"]
         IN  IF ~table.tbody.present THEN NoResult
             ELSE IF Len(table.tbody.rows) < 2 THEN NoResult
             ELSE LET away_scores == parse_row(table.tbody.rows[1])
                      home_scores == parse_row(table.tbody.rows[2])
                  IN  IF AnyRaised(away_scores) \/ AnyRaised(home_scores)
                      THEN Exception
                      ELSE Dict(QuarterDict("away", away_scores)
                                @@ QuarterDict("home", home_scores))

-----------------------------------------------------------------------------
(* parse_playoff_round, parse_arena_attendance.  A page carries, besides   *)
(* its tables, title (the text of its title tag, Absent without one),      *)
(* scorebox ([present, divs]: the texts of the divs of the scorebox_meta   *)
(* block) and att (the text of the parent of the strong element that       *)
(* matches "Attendance", Absent without one).                              *)

FIRST_ROUND == <<"f", "i", "r", "s", "t", " ", "r", "o", "u", "n", "d">>

CONF_SEMIS == <<"c", "o", "n", "f", "e", "r", "e", "n", "c", "e", " ",
                "s", "e", "m", "i", "f", "i", "n", "a", "l", "s">>

CONF_FINALS == <<"c", "o", "n", "f", "e", "r", "e", "n", "c", "e", " ",
                 "f", "i", "n", "a", "l", "s">>

NBA_FINALS == <<"n", "b", "a", " ", "f", "i", "n", "a", "l", "s">>

\* the round, "" for None
parse_playoff_round(soup) ==
    IF ~soup.title.some THEN ""
    ELSE LET title == Lower(soup.title.t)
         IN  IF Contains(title, FIRST_ROUND) THEN "first_round"
             ELSE IF Contains(title, CONF_SEMIS) THEN "conf_semis"
             ELSE IF Contains(title, CONF_FINALS) THEN "conf_finals"
             ELSE IF Contains(title, NBA_FINALS) THEN "finals"
             ELSE ""

ATTENDANCE == <<"A", "t", "t", "e", "n", "d", "a", "n", "c", "e">>

LOGO == <<"L", "o", "g", "o">>

\* arena: the second div of the scorebox block, up to its first comma,
\* unless it starts with "Attendance" or "Logo"; <<>> for None
ParseArena(soup) ==
    IF ~soup.scorebox.present \/ Len(soup.scorebox.divs) < 2 THEN <<>>
    ELSE LET candidate == Strip(soup.scorebox.divs[2])
         IN  IF StartsWith(candidate, ATTENDANCE) \/ StartsWith(candidate, LOGO) THEN <<>>
             ELSE Strip(BeforeComma(candidate))

\* attendance: the text next to the Attendance label without the label,
\* non-breaking spaces and commas, through safe_int
ParseAttendance(soup) ==
    IF ~soup.att.some THEN None
    ELSE safe_int(Some(Strip(Remove(Remove(Remove(Strip(soup.att.t),
                                                  ATTENDANCE \o <<":">>),
                                           <<"nbsp">>),
                                    <<",">>))))

-----------------------------------------------------------------------------
(* Line-score pages: the inputs of parse_quarter_scores                    *)

MaxTail == 3

T0 == <<"0">>

T7 == <<" ", "7">>

TBlank == <<>>

T25 == <<"2", "5">>

T30 == <<"3", "0">>

T28 == <<"2", "8", " ">>

T27 == <<"2", "7", ".", "0">>

TeamCell == Th(<<"t", "e", "a", "m">>, <<"B", "O", "S">>)

\* the cells of the four quarters: all numeric, one blank, only two cells
QuarterPrefixes ==
    { <<T25, T30, T28, T27>>, <<T25, TBlank, T28, T27>>, <<T25, T30>> }

\* the cells after the fourth: overtime periods and the Total column
TailCells(n) == SeqsUpTo({T0, T7, TBlank}, n)

LineRow(texts) == Tr({}, <<TeamCell>> \o [i \in 1..Len(texts) |-> Td(NoStat, texts[i])])

AwayRows == {LineRow(p \o t) : p \in QuarterPrefixes, t \in TailCells(MaxTail)}

MaxHomeTail == 2

HomeRows == {LineRow(<<T30, T25, T27, T28>> \o t) : t \in TailCells(MaxHomeTail)}

LineBodies ==
    {<<>>} \cup {<<a>> : a \in AwayRows} \cup {<<a, h>> : a \in AwayRows, h \in HomeRows}

LineScoreSoups ==
    { [tables |-> <<>>],
      [tables |-> ("line_score" :> [thead |-> NoHead, tbody |-> NoBody])] }
    \cup { [tables |-> ("line_score" :> [thead |-> NoHead, tbody |-> Body(b)])]
            : b \in LineBodies }

InitQuarter ==
    /\ inp \in LineScoreSoups
    /\ out = Pending
    /\ NoRun

ParseQuarterScores ==
    /\ out = Pending
    /\ out' = parse_quarter_scores(inp)
    /\ UNCHANGED inp
    /\ UNCHANGED run_vars

NextQuarter == ParseQuarterScores

SpecQuarter == InitQuarter /\ [][NextQuarter]_vars

\* the line_score table has a body of at least two rows
HasTwoRows ==
    /\ HasTable(inp, "line_score")
    /\ inp.tables["line_score"].tbody.present
    /\ Len(inp.tables["line_score"].tbody.rows) >= 2

\* the td cells of body row r, and the number the i-th one holds
LineCells(r) == TdCells(inp.tables["line_score"].tbody.rows[r])

LineVal(r, i) == safe_int(Some(get_text(LineCells(r)[i])))

RECURSIVE SumLineVals(_, _, _)
SumLineVals(r, lo, hi) ==
    IF lo > hi THEN 0
    ELSE (IF LineVal(r, lo).k = "int" THEN LineVal(r, lo).v ELSE 0)
         + SumLineVals(r, lo + 1, hi)

Sides == {<<"away", 1>>, <<"home", 2>>}

QuartersByPosition(side) ==
    \A i \in 1..4 :
        out.d[side[1] \o "_q" \o ToString(i)] =
            IF i <= Len(LineCells(side[2])) THEN LineVal(side[2], i) ELSE None

\* C1 as stated: q1..q4 are the first four cells; with exactly 4 cells there
\* is no overtime; with a 5th and a 6th numeric cell, overtime is their sum
\* when it is positive and absent when it is 0; under 2 rows, no result.
C1_AsClaimed ==
    out # Pending =>
        /\ ~HasTwoRows => out = NoResult
        /\ HasTwoRows =>
              /\ out.k = "dict"
              /\ \A side \in Sides :
                   LET r == side[2]
                       n == Len(LineCells(r))
                       ot == out.d[side[1] \o "_ot"]
                   IN  /\ QuartersByPosition(side)
                       /\ n = 4 => ot = None
                       /\ (n = 6 /\ LineVal(r, 5).k = "int" /\ LineVal(r, 6).k = "int") =>
                             LET sum == LineVal(r, 5).v + LineVal(r, 6).v
                             IN  ot = IF sum > 0 THEN IntV(sum) ELSE None

\* C1 (amended): q1..q4 are the first four td cells of the row (away row
\* first, home row second); overtime is absent when the row has at most 5
\* cells; with more than 5 cells overtime is the sum of the numeric cells
\* after the fourth EXCEPT THE LAST (the Total column), absent when that sum
\* is not positive; with fewer than 2 body rows there is no result.
C1_QuarterScores ==
    out # Pending =>
        /\ ~HasTwoRows => out = NoResult
        /\ (HasTwoRows /\ out.k # "raise") =>
              /\ out.k = "dict"
              /\ \A side \in Sides :
                   LET r == side[2]
                       n == Len(LineCells(r))
                       ot == out.d[side[1] \o "_ot"]
                       sum == SumLineVals(r, 5, n - 1)
                   IN  /\ QuartersByPosition(side)
                       /\ n <= 5 => ot = None
                       /\ n > 5 => ot = IF sum > 0 THEN IntV(sum) ELSE None

\* two overtime periods of 7 before the Total column: overtime 14
C1_Witness ==
    /\ out.k = "dict"
    /\ Len(LineCells(1)) = 7
    /\ LineVal(1, 5) = IntV(7) /\ LineVal(1, 6) = IntV(7)
    /\ out.d["away_ot"] = IntV(14)
    /\ out.d["home_q4"] = IntV(28)

-----------------------------------------------------------------------------
(* scrape_box_scores.py: the pure part of scrape_game                      *)

to_bref(abbrev) ==
    CASE abbrev = "PHX" -> "PHO" [] abbrev = "BKN" -> "BRK" [] abbrev = "CHA" -> "CHO"
      [] OTHER -> abbrev

TableId(team_bref, kind) == "box-" \o team_bref \o "-game-" \o kind

\* date_str: game_date[:10] read as %Y-%m-%d and written as %Y%m%d
DateStr(game_date) == SelectSeq(SubSeq(game_date, 1, 10), LAMBDA c : c # "-")

\* a URL of the external site: [site, key, team, year]
BoxScoreUrl(home_abbrev, game_date) ==
    [site |-> "boxscores", key |-> DateStr(game_date) \o <<"0">>,
     team |-> to_bref(home_abbrev), year |-> 0]

TS_PCT == <<"t", "s", "_", "p", "c", "t">>

\* adv_lookup.get(player_name, {}): the last advanced row of that name
AdvLookup(adv_rows, player_name) ==
    LET hits == {i \in 1..Len(adv_rows) : PlayerName(adv_rows[i].data) = player_name}
    IN  IF hits = {} THEN <<>>
        ELSE adv_rows[CHOOSE i \in hits : \A j \in hits : j <= i].data

\* row.get("mp") or None
OrNone(val) == IF val.some /\ val.t # <<>> THEN val ELSE Absent

\* one element of box_rows.  Of the 19 basic and 15 advanced statistics the
\* record keeps minutes (text), points (safe_int) and ts_pct (safe_float of
\* an advanced column); the others go through the same two coercions.
BoxRow(game_id, team_id, row, adv) ==
    [game_id |-> game_id, team_id |-> team_id,
     player_name |-> PlayerName(row.data),
     minutes |-> OrNone(Get(row.data, MP)),
     points |-> safe_int(Get(row.data, PTS)),
     ts_pct |-> safe_float(Get(adv, TS_PCT)),
     starter |-> row.starter]

\* the records of one team from its parsed tables: rows without a player
\* name are left out; a coercion that raised ends the whole call
TeamRecords(game_id, team_id, basic, adv) ==
    IF basic.k = "raise" \/ adv.k = "raise" THEN RowsRaised
    ELSE LET recs == [i \in 1..Len(basic.rows) |->
                         BoxRow(game_id, team_id, basic.rows[i],
                                AdvLookup(adv.rows, PlayerName(basic.rows[i].data)))]
         IN  IF \E i \in 1..Len(recs) : IsRaised(recs[i].points) THEN RowsRaised
             ELSE Rows(SelectSeq(recs, LAMBDA r : r.player_name # <<>>))

\* the body of the loop over the two teams: [k, rows]
TeamBoxRows(soup, game_id, team_bref, team_id) ==
    TeamRecords(game_id, team_id,
                parse_box_score_table(soup, TableId(team_bref, "basic")),
                parse_box_score_table(soup, TableId(team_bref, "advanced")))

\* box_rows after both teams: the away team's records, then the home team's
BothTeams(away, home) ==
    IF away.k = "raise" \/ home.k = "raise" THEN RowsRaised
    ELSE Rows(away.rows \o home.rows)

\* box_rows of a game
ParseBoxRows(soup, game) ==
    BothTeams(TeamBoxRows(soup, game.id, to_bref(game.away_team.abbreviation),
                          game.away_team.id),
              TeamBoxRows(soup, game.id, to_bref(game.home_team.abbreviation),
                          game.home_team.id))

\* the conflict key of a box_scores row: on_conflict="game_id,team_id,player_name"
BoxKey(r) == <<r.game_id, r.team_id, r.player_name>>

NotNone(d) == [key \in {x \in DOMAIN d : d[x] # None} |-> d[key]]

\* update_data from the parsed parts: the quarter scores that are not None,
\* playoff_round, arena and attendance when truthy; [k, d], k = "raise" when a
\* coercion raised
UpdateData(quarter_data, attendance, arena, playoff_round) ==
    LET quarters == IF quarter_data.k = "dict" THEN NotNone(quarter_data.d) ELSE <<>>
        round    == IF playoff_round # "" THEN "playoff_round" :> playoff_round ELSE <<>>
        place    == IF arena # <<>> THEN "arena" :> arena ELSE <<>>
        crowd    == IF attendance.k = "int" /\ attendance.v # 0
                    THEN "attendance" :> attendance ELSE <<>>
    IN  IF quarter_data.k = "raise" \/ IsRaised(attendance) THEN Exception
        ELSE Dict(crowd @@ place @@ round @@ quarters)

BuildUpdateData(soup) ==
    UpdateData(parse_quarter_scores(soup), ParseAttendance(soup), ParseArena(soup),
               parse_playoff_round(soup))

-----------------------------------------------------------------------------
(* The remote store and the external site, as the box-score script sees     *)
(* them                                                                     *)

SeasonArgs == {2025}

Team(abbrev) == [id |-> "team-" \o abbrev, abbreviation |-> abbrev]

\* the games of the season, final, in game_date_utc order
GameRows ==
    << [id |-> "g1", game_date_utc |-> <<"2", "0", "2", "5", "-", "0", "1", "-", "1", "5", "T", "0", "0", ":", "3", "0", ":", "0", "0", "Z">>,
        home_team |-> Team("BOS"), away_team |-> Team("PHX"), postseason |-> FALSE],
       [id |-> "g2", game_date_utc |-> <<"2", "0", "2", "5", "-", "0", "4", "-", "2", "0", "T", "1", "7", ":", "0", "0", ":", "0", "0", "Z">>,
        home_team |-> Team("BKN"), away_team |-> Team("BOS"), postseason |-> TRUE] >>

GameIds == {GameRows[i].id : i \in 1..Len(GameRows)}

GameRow(id) == GameRows[CHOOSE i \in 1..Len(GameRows) : GameRows[i].id = id]

\* the scraped columns of a games row that an earlier run has filled
ScrapedCols == "home_q1" :> IntV(25)

NameDee == <<"D", "e", "e", " ", "E", "c", "k">>

AdvKeyRow == <<Th(PLAYER, <<"S", "t", "a", "r", "t", "e", "r", "s">>), Th(TS_PCT, <<"T", "S", "%">>)>>

AdvRow(name, ts) == Tr({}, <<Th(PLAYER, name), Td(TS_PCT, ts)>>)

BasicTable(rows) == [thead |-> Thead(<<GroupRow, KeyRow3>>), tbody |-> Body(rows)]

AdvTable(rows) == [thead |-> Thead(<<GroupRow, AdvKeyRow>>), tbody |-> Body(rows)]

LineTable(rows) == [thead |-> NoHead, tbody |-> Body(rows)]

NoScorebox == [present |-> FALSE, divs |-> <<>>]

AwayBasic(game) == TableId(to_bref(game.away_team.abbreviation), "basic")

AwayAdv(game) == TableId(to_bref(game.away_team.abbreviation), "advanced")

HomeBasic(game) == TableId(to_bref(game.home_team.abbreviation), "basic")

HomeAdv(game) == TableId(to_bref(game.home_team.abbreviation), "advanced")

\* a regular-season page with every table, arena and attendance
FullPage(game) ==
    [tables |->
        AwayBasic(game) :> BasicTable(<<PlayerRow(NameAl), SeparatorRow, PlayerRow(NameBo),
                                        DnpRow, TotalsRow>>)
        @@ AwayAdv(game) :> AdvTable(<<AdvRow(NameAl, <<".", "6", "1", "2">>), AdvRow(NameBo, <<" ", ".", "5", " ">>)>>)
        @@ HomeBasic(game) :> BasicTable(<<PlayerRow(NameDee)>>)
        @@ HomeAdv(game) :> AdvTable(<<>>)
        @@ "line_score" :> LineTable(<<LineRow(<<T25, T30, T28, T27, <<"1", "1", "0">>>>),
                                       LineRow(<<T30, T25, T27, T28, <<"1", "1", "0">>>>)>>),
     title |-> Some(<<"P", "H", "X", " ", "v", "s", " ", "B", "O", "S", " ", "B", "o", "x", " ", "S", "c", "o", "r", "e">>),
     scorebox |-> [present |-> TRUE, divs |-> <<<<"7", ":", "3", "0", " ", "P", "M", ",", " ", "J", "a", "n", " ", "1", "5">>, <<"T", "D", " ", "G", "a", "r", "d", "e", "n", ",", " ", "B", "o", "s", "t", "o", "n">>>>],
     att |-> Some(<<"A", "t", "t", "e", "n", "d", "a", "n", "c", "e", ":", "nbsp", "1", "9", ",", "1", "5", "6">>)]

\* a playoff page: an overtime game, no advanced tables, no arena block
PlayoffPage(game) ==
    [tables |->
        AwayBasic(game) :> BasicTable(<<PlayerRow(NameAl)>>)
        @@ HomeBasic(game) :> BasicTable(<<PlayerRow(NameDee)>>)
        @@ "line_score" :> LineTable(<<LineRow(<<T25, T30, T28, T27, T7, <<"1", "1", "7">>>>),
                                       LineRow(<<T30, T25, T27, T28, T0, <<"1", "1", "0">>>>)>>),
     title |-> Some(<<"N", "B", "A", " ", "E", "a", "s", "t", "e", "r", "n", " ", "F", "i", "r", "s", "t", " ", "R", "o", "u", "n", "d", " ", "G", "a", "m", "e", " ", "1">>),
     scorebox |-> NoScorebox,
     att |-> Absent]

\* the away table lists one player name twice; nothing else is on the page
SameNamePage(game) ==
    [tables |->
        AwayBasic(game) :> BasicTable(<<PlayerRow(NameAl), PlayerRow(NameAl)>>)
        @@ HomeBasic(game) :> BasicTable(<<PlayerRow(NameDee)>>),
     title |-> Absent, scorebox |-> NoScorebox, att |-> Absent]

\* no box-score table at all
NoBoxPage(game) ==
    [tables |-> "line_score" :> LineTable(<<LineRow(<<T25, T30, T28, T27, <<"1", "1", "0">>>>),
                                            LineRow(<<T30, T25, T27, T28, <<"1", "1", "0">>>>)>>),
     title |-> Some(<<"P", "H", "X", " ", "v", "s", " ", "B", "O", "S", " ", "B", "o", "x", " ", "S", "c", "o", "r", "e">>), scorebox |-> NoScorebox, att |-> Absent]

\* the away basic table has no header section
NoHeaderPage(game) ==
    [tables |->
        AwayBasic(game) :> [thead |-> NoHead, tbody |-> Body(<<PlayerRow(NameAl)>>)]
        @@ HomeBasic(game) :> BasicTable(<<PlayerRow(NameDee)>>),
     title |-> Absent, scorebox |-> NoScorebox, att |-> Absent]

\* the pages the site may answer with for a game
GamePages(game) ==
    { FullPage(game), PlayoffPage(game), SameNamePage(game), NoBoxPage(game),
      NoHeaderPage(game) }

Statuses == {200, 404}

-----------------------------------------------------------------------------
(* scrape_box_scores.py: main, scrape_game, backfill_playoff_rounds.  An    *)
(* action runs the script from one request to the remote store or to the    *)
(* external site up to the next one.                                        *)

BoxSleepTenths == 35

BackfillSleepTenths == 35

DefaultLimit == 2000

NoUrl == [site |-> "", key |-> <<>>, team |-> "", year |-> 0]

\* the entries of log: time.sleep, requests.get, upsert(...).execute() and
\* update(...).execute(); n is the sleep in tenths of a second or the status
SleepEv(tenths) ==
    [ev |-> "sleep", what |-> "", url |-> NoUrl, keys |-> <<>>, ok |-> TRUE, n |-> tenths]

GetEv(url, status) ==
    [ev |-> "get", what |-> "", url |-> url, keys |-> <<>>, ok |-> status = 200, n |-> status]

UpsertEv(collection, keys, ok) ==
    [ev |-> "upsert", what |-> collection, url |-> NoUrl, keys |-> keys, ok |-> ok, n |-> 0]

UpdateEv(collection, id, ok) ==
    [ev |-> "update", what |-> collection, url |-> NoUrl, keys |-> <<id>>, ok |-> ok, n |-> 0]

\* query.limit(limit if limit else 2000)
Limited(rows, limit) ==
    LET n == IF limit # 0 THEN limit ELSE DefaultLimit
    IN  IF Len(rows) <= n THEN rows ELSE SubSeq(rows, 1, n)

IsNull(id, column) == column \notin DOMAIN db_games[id].cols

\* the work list of main: final games of the season without quarter scores
GamesWithoutBoxScores ==
    SelectSeq(GameRows, LAMBDA g : IsNull(g.id, "home_q1"))

\* the work list of the backfill: scraped playoff games without a round
GamesToBackfill ==
    SelectSeq(GameRows, LAMBDA g : g.postseason /\ IsNull(g.id, "playoff_round")
                                   /\ ~IsNull(g.id, "home_q1"))

InitBox ==
    /\ inp = NoSoup /\ out = Pending
    /\ script = "box"
    /\ args \in [season : SeasonArgs, limit : {0, 1}, backfill : BOOLEAN, team : {""},
                 averages : {FALSE}]
    /\ db_seasons \in {{}, SeasonArgs}
    /\ db_teams = <<>>
    /\ db_games \in [GameIds -> {[cols |-> <<>>], [cols |-> ScrapedCols]}]
    /\ db_box_scores = {} /\ db_players = {} /\ db_averages = {}
    /\ pc = "start" /\ work = <<>> /\ idx = 0 /\ success = 0
    /\ page = NoSoup /\ batch = <<>> /\ update_data = <<>> /\ all_players = <<>>
    /\ log = <<>>

\* the same step with the games query issued whatever the season lookup says
FetchGamesWithoutBoxScores_NoSeasonCheck ==
    /\ script = "box" /\ pc = "start" /\ ~args.backfill
    /\ work' = Limited(GamesWithoutBoxScores, args.limit)
    /\ idx' = 1
    /\ pc' = "loop"
    /\ UNCHANGED <<pure_vars, script, args, db_seasons, db_teams, db_games, db_box_scores,
                   db_players, db_averages, success, page, batch, update_data,
                   all_players, log>>

\* main -> fetch_games_without_box_scores: the season lookup (sys.exit(1)
\* without a row), then the games query
FetchGamesWithoutBoxScores ==
    /\ script = "box" /\ pc = "start" /\ ~args.backfill
    /\ IF args.season \notin db_seasons
       THEN pc' = "exit_no_season" /\ UNCHANGED <<work, idx>>
       ELSE /\ work' = Limited(GamesWithoutBoxScores, args.limit)
            /\ idx' = 1
            /\ pc' = "loop"
    /\ UNCHANGED <<pure_vars, script, args, db_seasons, db_teams, db_games, db_box_scores,
                   db_players, db_averages, success, page, batch, update_data,
                   all_players, log>>

\* what a return from scrape_game does in the loop of main
Returns(result) ==
    /\ success' = IF result THEN success + 1 ELSE success
    /\ idx' = idx + 1
    /\ pc' = "loop"
    /\ page' = NoSoup /\ batch' = <<>> /\ update_data' = <<>>

\* scrape_game: time.sleep(3.5)
ScrapeGameSleep ==
    /\ script = "box" /\ pc = "loop" /\ ~args.backfill
    /\ idx <= Len(work)
    /\ log' = Append(log, SleepEv(BoxSleepTenths))
    /\ pc' = "fetch"
    /\ UNCHANGED <<pure_vars, script, args, db_seasons, db_teams, db_games, db_box_scores,
                   db_players, db_averages, work, idx, success, page, batch, update_data,
                   all_players>>

\* the same step with the status of the response not looked at
FetchGamePage_IgnoresStatus ==
    /\ script = "box" /\ pc = "fetch" /\ ~args.backfill
    /\ \E status \in Statuses, soup \in GamePages(work[idx]) :
       \E box_rows \in {ParseBoxRows(soup, work[idx])} :
         LET game == work[idx]
         IN  /\ log' = Append(log, GetEv(BoxScoreUrl(game.home_team.abbreviation,
                                                     game.game_date_utc), status))
             /\ IF box_rows.k = "raise"
                THEN pc' = "crashed" /\ page' = soup
                     /\ UNCHANGED <<idx, success, batch, update_data>>
                ELSE IF box_rows.rows = <<>> THEN Returns(FALSE)
                ELSE /\ batch' = box_rows.rows
                     /\ page' = soup
                     /\ pc' = "upsert"
                     /\ UNCHANGED <<idx, success, update_data>>
    /\ UNCHANGED <<pure_vars, script, args, db_seasons, db_teams, db_games, db_box_scores,
                   db_players, db_averages, work, all_players>>

\* scrape_game: fetch_game_page, then the box rows of both teams.  An
\* exception of a parser is caught nowhere and ends the process.
FetchGamePage ==
    /\ script = "box" /\ pc = "fetch" /\ ~args.backfill
    /\ \E status \in Statuses, soup \in GamePages(work[idx]) :
       \E box_rows \in {ParseBoxRows(soup, work[idx])} :
         LET game == work[idx]
         IN  /\ log' = Append(log, GetEv(BoxScoreUrl(game.home_team.abbreviation,
                                                     game.game_date_utc), status))
             /\ IF status # 200 THEN Returns(FALSE)
                ELSE IF box_rows.k = "raise"
                THEN pc' = "crashed" /\ page' = soup
                     /\ UNCHANGED <<idx, success, batch, update_data>>
                ELSE IF box_rows.rows = <<>> THEN Returns(FALSE)
                ELSE /\ batch' = box_rows.rows
                     /\ page' = soup
                     /\ pc' = "upsert"
                     /\ UNCHANGED <<idx, success, update_data>>
    /\ UNCHANGED <<pure_vars, script, args, db_seasons, db_teams, db_games, db_box_scores,
                   db_players, db_averages, work, all_players>>

\* the same step without the return in the except branch of the upsert
UpsertBoxScores_GoesOn ==
    /\ script = "box" /\ pc = "upsert"
    /\ \E ok \in BOOLEAN, data \in {BuildUpdateData(page)} :
         LET keys == [i \in 1..Len(batch) |-> BoxKey(batch[i])]
         IN  /\ log' = Append(log, UpsertEv("box_scores", keys, ok))
             /\ db_box_scores' = IF ok THEN db_box_scores \cup {keys[i] : i \in 1..Len(keys)}
                                 ELSE db_box_scores
             /\ IF data.k = "raise"
                THEN pc' = "crashed" /\ UNCHANGED <<idx, success, page, batch, update_data>>
                ELSE IF data.d = <<>> THEN Returns(TRUE)
                ELSE /\ update_data' = data.d
                     /\ pc' = "update"
                     /\ UNCHANGED <<idx, success, page, batch>>
    /\ UNCHANGED <<pure_vars, script, args, db_seasons, db_teams, db_games, db_players,
                   db_averages, work, all_players>>

\* the same step without the try/except around the upsert
UpsertBoxScores_NotCaught ==
    /\ script = "box" /\ pc = "upsert"
    /\ \E ok \in BOOLEAN, data \in {BuildUpdateData(page)} :
         LET keys == [i \in 1..Len(batch) |-> BoxKey(batch[i])]
         IN  /\ log' = Append(log, UpsertEv("box_scores", keys, ok))
             /\ IF ~ok
                THEN pc' = "crashed"
                     /\ UNCHANGED <<idx, success, page, batch, update_data, db_box_scores>>
                ELSE /\ db_box_scores' = db_box_scores \cup {keys[i] : i \in 1..Len(keys)}
                     /\ IF data.k = "raise"
                        THEN pc' = "crashed" /\ UNCHANGED <<idx, success, page, batch, update_data>>
                        ELSE IF data.d = <<>> THEN Returns(TRUE)
                        ELSE /\ update_data' = data.d
                             /\ pc' = "update"
                             /\ UNCHANGED <<idx, success, page, batch>>
    /\ UNCHANGED <<pure_vars, script, args, db_seasons, db_teams, db_games, db_players,
                   db_averages, work, all_players>>

\* scrape_game: the box_scores upsert, then update_data from the same page
UpsertBoxScores ==
    /\ script = "box" /\ pc = "upsert"
    /\ \E ok \in BOOLEAN, data \in {BuildUpdateData(page)} :
         LET keys == [i \in 1..Len(batch) |-> BoxKey(batch[i])]
         IN  /\ log' = Append(log, UpsertEv("box_scores", keys, ok))
             /\ IF ~ok THEN Returns(FALSE) /\ UNCHANGED db_box_scores
                ELSE /\ db_box_scores' = db_box_scores \cup {keys[i] : i \in 1..Len(keys)}
                     /\ IF data.k = "raise"
                        THEN pc' = "crashed" /\ UNCHANGED <<idx, success, page, batch, update_data>>
                        ELSE IF data.d = <<>> THEN Returns(TRUE)
                        ELSE /\ update_data' = data.d
                             /\ pc' = "update"
                             /\ UNCHANGED <<idx, success, page, batch>>
    /\ UNCHANGED <<pure_vars, script, args, db_seasons, db_teams, db_games, db_players,
                   db_averages, work, all_players>>

\* scrape_game: the games update; its exception is printed and True returned
UpdateGame ==
    /\ script = "box" /\ pc = "update"
    /\ \E ok \in BOOLEAN :
         LET id == work[idx].id
         IN  /\ log' = Append(log, UpdateEv("games", id, ok))
             /\ db_games' = IF ok
                            THEN [db_games EXCEPT ![id].cols = update_data @@ db_games[id].cols]
                            ELSE db_games
             /\ Returns(TRUE)
    /\ UNCHANGED <<pure_vars, script, args, db_seasons, db_teams, db_box_scores, db_players,
                   db_averages, work, all_players>>

\* main: the loop is over, the summary is printed
MainDone ==
    /\ script = "box" /\ pc = "loop" /\ ~args.backfill
    /\ idx > Len(work)
    /\ pc' = "done"
    /\ UNCHANGED <<pure_vars, script, args, db_seasons, db_teams, db_games, db_box_scores,
                   db_players, db_averages, work, idx, success, page, batch, update_data,
                   all_players, log>>

\* backfill_playoff_rounds: the season lookup, then the games query
BackfillQuery ==
    /\ script = "box" /\ pc = "start" /\ args.backfill
    /\ IF args.season \notin db_seasons
       THEN pc' = "exit_no_season" /\ UNCHANGED <<work, idx>>
       ELSE /\ work' = Limited(GamesToBackfill, args.limit)
            /\ idx' = 1
            /\ pc' = "loop"
    /\ UNCHANGED <<pure_vars, script, args, db_seasons, db_teams, db_games, db_box_scores,
                   db_players, db_averages, success, page, batch, update_data,
                   all_players, log>>

\* backfill_playoff_rounds: time.sleep(3.5)
BackfillSleep ==
    /\ script = "box" /\ pc = "loop" /\ args.backfill
    /\ idx <= Len(work)
    /\ log' = Append(log, SleepEv(BackfillSleepTenths))
    /\ pc' = "fetch"
    /\ UNCHANGED <<pure_vars, script, args, db_seasons, db_teams, db_games, db_box_scores,
                   db_players, db_averages, work, idx, success, page, batch, update_data,
                   all_players>>

\* backfill_playoff_rounds: fetch_game_page and parse_playoff_round
BackfillFetch ==
    /\ script = "box" /\ pc = "fetch" /\ args.backfill
    /\ \E status \in Statuses, soup \in GamePages(work[idx]) :
         LET game == work[idx]
             playoff_round == parse_playoff_round(soup)
         IN  /\ log' = Append(log, GetEv(BoxScoreUrl(game.home_team.abbreviation,
                                                     game.game_date_utc), status))
             /\ IF status # 200 \/ playoff_round = ""
                THEN idx' = idx + 1 /\ pc' = "loop" /\ UNCHANGED <<page, update_data>>
                ELSE /\ update_data' = ("playoff_round" :> playoff_round)
                     /\ page' = soup
                     /\ pc' = "bf_update"
                     /\ UNCHANGED idx
    /\ UNCHANGED <<pure_vars, script, args, db_seasons, db_teams, db_games, db_box_scores,
                   db_players, db_averages, work, success, batch, all_players>>

\* backfill_playoff_rounds: the games update; success counts it when it worked
BackfillUpdate ==
    /\ script = "box" /\ pc = "bf_update"
    /\ \E ok \in BOOLEAN :
         LET id == work[idx].id
         IN  /\ log' = Append(log, UpdateEv("games", id, ok))
             /\ db_games' = IF ok
                            THEN [db_games EXCEPT ![id].cols = update_data @@ db_games[id].cols]
                            ELSE db_games
             /\ success' = IF ok THEN success + 1 ELSE success
    /\ idx' = idx + 1
    /\ pc' = "loop"
    /\ page' = NoSoup /\ update_data' = <<>>
    /\ UNCHANGED <<pure_vars, script, args, db_seasons, db_teams, db_box_scores, db_players,
                   db_averages, work, batch, all_players>>

\* backfill_playoff_rounds: the loop is over, the summary is printed
BackfillDone ==
    /\ script = "box" /\ pc = "loop" /\ args.backfill
    /\ idx > Len(work)
    /\ pc' = "done"
    /\ UNCHANGED <<pure_vars, script, args, db_seasons, db_teams, db_games, db_box_scores,
                   db_players, db_averages, work, idx, success, page, batch, update_data,
                   all_players, log>>

NextBox ==
    \/ FetchGamesWithoutBoxScores
    \/ ScrapeGameSleep
    \/ FetchGamePage
    \/ UpsertBoxScores
    \/ UpdateGame
    \/ BackfillQuery
    \/ BackfillSleep
    \/ BackfillFetch
    \/ BackfillUpdate
    \/ BackfillDone
    \/ MainDone

SpecBox == InitBox /\ [][NextBox]_vars

-----------------------------------------------------------------------------
(* scrape_players.py: the pure functions.  A roster cell also carries link: *)
(* [present, href], the first a element inside it and its href attribute.   *)

Letters == <<"a", "b", "c", "d", "e", "f", "g", "h", "i", "j", "k", "l", "m",
             "n", "o", "p", "q", "r", "s", "t", "u", "v", "w", "x", "y", "z">>

DigitChars == <<"0", "1", "2", "3", "4", "5", "6", "7", "8", "9">>

IsLower(c) == \E i \in 1..Len(Letters) : Letters[i] = c

IsLowerOrDigit(c) == IsLower(c) \/ c \in Digits

\* the UTF-8 byte of a character of a slug
Ord(c) ==
    IF c \in Digits THEN 48 + DigitVal(c)
    ELSE 96 + (CHOOSE i \in 1..Len(Letters) : Letters[i] = c)

AdlerBase == 65521

\* zlib.adler32: a = 1 + the bytes, b = the sum of the values a takes, both
\* modulo 65521; the checksum is b * 2^16 + a
RECURSIVE AdlerPair(_)
AdlerPair(t) ==
    IF t = <<>> THEN <<1, 0>>
    ELSE LET prev == AdlerPair(SubSeq(t, 1, Len(t) - 1))
             a    == (prev[1] + Ord(t[Len(t)])) % AdlerBase
         IN  <<a, (prev[2] + a) % AdlerBase>>

slug_to_provider_id(slug) == AdlerPair(slug)[2] * 65536 + AdlerPair(slug)[1]

\* str(n) for n >= 0
RECURSIVE NatText(_)
NatText(n) ==
    IF n < 10 THEN <<DigitChars[n + 1]>>
    ELSE NatText(n \div 10) \o <<DigitChars[(n % 10) + 1]>>

\* t[-2:]
LastTwo(t) == IF Len(t) <= 2 THEN t ELSE SubSeq(t, Len(t) - 1, Len(t))

\* season_str = f"{season}-{str(season+1)[-2:]}"
SeasonStr(season) == NatText(season) \o <<"-">> \o LastTwo(NatText(season + 1))

\* fetch_roster_page: url_year = season + 1
RosterUrl(bref_abbrev, season) ==
    [site |-> "teams", key |-> <<>>, team |-> bref_abbrev, year |-> season + 1]

\* fetch_player_page: /players/{slug[0]}/{slug}.html
PlayerUrl(slug) == [site |-> "players", key |-> slug, team |-> "", year |-> 0]

PLAYERS_PATH == <<"/", "p", "l", "a", "y", "e", "r", "s", "/">>

DOT_HTML == <<".", "h", "t", "m", "l">>

\* the length of the longest run of [a-z0-9] of t from position i on
RECURSIVE RunLen(_, _)
RunLen(t, i) == IF i <= Len(t) /\ IsLowerOrDigit(t[i]) THEN 1 + RunLen(t, i + 1) ELSE 0

\* sub occurs in t at position i
HasAt(t, i, sub) == i + Len(sub) - 1 <= Len(t) /\ SubSeq(t, i, i + Len(sub) - 1) = sub

\* the pattern /players/[a-z]/([a-z0-9]+)\.html matches href at position i
MatchesAt(href, i) ==
    LET j == i + Len(PLAYERS_PATH)
        n == RunLen(href, j + 2)
    IN  /\ HasAt(href, i, PLAYERS_PATH)
        /\ j + 1 <= Len(href) /\ IsLower(href[j]) /\ href[j + 1] = "/"
        /\ n >= 1
        /\ HasAt(href, j + 2 + n, DOT_HTML)

\* re.search(...).group(1) on the href of the link, <<>> for no slug
SlugOf(cell) ==
    IF ~cell.link.present \/ ~cell.link.href.some \/ cell.link.href.t = <<>> THEN <<>>
    ELSE LET href == cell.link.href.t
             hits == {i \in 1..Len(href) : MatchesAt(href, i)}
         IN  IF hits = {} THEN <<>>
             ELSE LET i == CHOOSE x \in hits : \A y \in hits : x <= y
                      j == i + Len(PLAYERS_PATH) + 2
                  IN  SubSeq(href, j, j + RunLen(href, j) - 1)

\* cells.get(stat): the last th/td of the row with that data-stat
HasCell(tr, stat) == \E i \in 1..Len(tr.cells) : tr.cells[i].stat = stat

CellOf(tr, stat) ==
    tr.cells[CHOOSE i \in 1..Len(tr.cells) :
                 tr.cells[i].stat = stat /\ \A j \in (i + 1)..Len(tr.cells) : tr.cells[j].stat # stat]

TextOf(tr, stat) == IF HasCell(tr, stat) THEN Some(get_text(CellOf(tr, stat))) ELSE Absent

\* name_text.split(" ", 1)
FirstName(name) ==
    IF \E i \in 1..Len(name) : name[i] = " "
    THEN SubSeq(name, 1, (CHOOSE i \in 1..Len(name) : name[i] = " " /\ \A j \in 1..(i - 1) : name[j] # " ") - 1)
    ELSE name

LastName(name) ==
    IF \E i \in 1..Len(name) : name[i] = " "
    THEN SubSeq(name, (CHOOSE i \in 1..Len(name) : name[i] = " " /\ \A j \in 1..(i - 1) : name[j] # " ") + 1,
                Len(name))
    ELSE <<>>

\* parse_height: None for blank text, else the stripped text
parse_height(val) == IF ~val.some \/ Strip(val.t) = <<>> THEN Absent ELSE Some(Strip(val.t))

NUMBER == <<"n", "u", "m", "b", "e", "r">>

POS == <<"p", "o", "s">>

HEIGHT == <<"h", "e", "i", "g", "h", "t">>

\* the same filter without the test of the slug
RosterRowKept_KeepsSlugless(tr) ==
    /\ HasCell(tr, PLAYER)
    /\ get_text(CellOf(tr, PLAYER)) # <<>>

\* a roster row yields a record: it has a player cell with text and a slug
RosterRowKept(tr) ==
    /\ HasCell(tr, PLAYER)
    /\ get_text(CellOf(tr, PLAYER)) # <<>>
    /\ SlugOf(CellOf(tr, PLAYER)) # <<>>

\* the record of a roster row (weight, college and country are read like
\* jersey_number and position, and left out)
RosterRecord(tr) ==
    LET name == get_text(CellOf(tr, PLAYER))
    IN  [slug |-> SlugOf(CellOf(tr, PLAYER)),
         first_name |-> FirstName(name),
         last_name |-> LastName(name),
         jersey_number |-> TextOf(tr, NUMBER),
         position |-> TextOf(tr, POS),
         height |-> parse_height(TextOf(tr, HEIGHT))]

parse_roster(soup) ==
    IF ~HasTable(soup, "roster") THEN <<>>
    ELSE IF ~soup.tables["roster"].tbody.present THEN <<>>
    ELSE LET kept == SelectSeq(soup.tables["roster"].tbody.rows, RosterRowKept)
         IN  [i \in 1..Len(kept) |-> RosterRecord(kept[i])]

SEASON == <<"s", "e", "a", "s", "o", "n">>

G == <<"g">>

PTS_PER_G == <<"p", "t", "s", "_", "p", "e", "r", "_", "g">>

\* the first body row of per_game that is no header row and whose season cell
\* (a th) reads season_str; 0 when there is none
AveragesRow(rows, season_str) ==
    LET hits == {i \in 1..Len(rows) :
                    /\ "thead" \notin rows[i].cls
                    /\ \E c \in 1..Len(rows[i].cells) :
                          rows[i].cells[c].tag = "th" /\ rows[i].cells[c].stat = SEASON
                    /\ LET c == CHOOSE x \in 1..Len(rows[i].cells) :
                                   /\ rows[i].cells[x].tag = "th" /\ rows[i].cells[x].stat = SEASON
                                   /\ \A y \in 1..(x - 1) :
                                        ~(rows[i].cells[y].tag = "th" /\ rows[i].cells[y].stat = SEASON)
                       IN  get_text(rows[i].cells[c]) = season_str}
    IN  IF hits = {} THEN 0 ELSE CHOOSE i \in hits : \A j \in hits : i <= j

\* the td cells of the row by data-stat
TdText(tr, stat) ==
    LET tds == [cls |-> tr.cls, cells |-> TdCells(tr)]
    IN  TextOf(tds, stat)

\* parse_season_averages: [k, d]; of the eleven averages the record keeps
\* games (safe_int) and ppg (safe_float)
parse_season_averages(soup, season) ==
    IF ~HasTable(soup, "per_game") THEN NoResult
    ELSE IF ~soup.tables["per_game"].tbody.present THEN NoResult
    ELSE LET rows == soup.tables["per_game"].tbody.rows
             i    == AveragesRow(rows, SeasonStr(season))
         IN  IF i = 0 THEN NoResult
             ELSE IF IsRaised(safe_int(TdText(rows[i], G))) THEN Exception
             ELSE Dict([games |-> safe_int(TdText(rows[i], G)),
                        ppg |-> safe_float(TdText(rows[i], PTS_PER_G))])

-----------------------------------------------------------------------------
(* The external site as the players script sees it                         *)

NoLink == [present |-> FALSE, href |-> Absent]

Link(href) == [present |-> TRUE, href |-> Some(href)]

LinkCell(tag, stat, text, link) == [tag |-> tag, stat |-> stat, text |-> text, link |-> link]

RosterRow(name, link, number, pos) ==
    Tr({}, <<Th(NUMBER, number), LinkCell("td", PLAYER, name, link), Td(POS, pos),
             Td(HEIGHT, <<"6", "-", "8">>)>>)

HrefAl == <<"/", "p", "l", "a", "y", "e", "r", "s", "/", "f", "/", "f", "o", "r", "d", "a", "l", "0", "1", ".", "h", "t", "m", "l">>

HrefBo == <<"h", "t", "t", "p", "s", ":", "/", "/", "x", ".", "c", "o", "m", "/", "p", "l", "a", "y", "e", "r", "s", "/", "c", "/", "c", "r", "y", "b", "o", "0", "1", ".", "h", "t", "m", "l">>

RosterTable(rows) == [thead |-> Thead(<<>>), tbody |-> Body(rows)]

PlainPage(tables) == [tables |-> tables, title |-> Absent, scorebox |-> NoScorebox, att |-> Absent]

\* two players with profile links
RosterPageA ==
    PlainPage("roster" :> RosterTable(<<RosterRow(NameAl, Link(HrefAl), <<"0">>, <<"P", "F">>),
                                        RosterRow(NameBo, Link(HrefBo), <<>>, <<"P", "G">>)>>))

\* a player who is on the other roster too, a row without a link and a row
\* whose link is no player URL
RosterPageB ==
    PlainPage("roster" :> RosterTable(<<RosterRow(NameAl, Link(HrefAl), <<"0">>, <<"P", "F">>),
                                        RosterRow(NameCy, NoLink, <<"7">>, <<"P", "G">>),
                                        RosterRow(NameDee, Link(<<"/", "c", "o", "a", "c", "h", "e", "s", "/", "e", "c", "k", "d", "e", "9", "9", "c", ".", "h", "t", "m", "l">>), <<"7">>, <<"P", "G">>)>>))

RosterPages == { RosterPageA, RosterPageB, PlainPage(<<>>) }

PerGameRow(season_label, g, ppg) ==
    Tr({}, <<Th(SEASON, season_label), Td(G, g), Td(PTS_PER_G, ppg)>>)

PerGameTable(rows) == [thead |-> Thead(<<>>), tbody |-> Body(rows)]

\* per_game with the rows 2024-25 and 2025-26, with the row 2023-24 only,
\* and a page without the table
PlayerPages ==
    { PlainPage("per_game" :> PerGameTable(<<PerGameRow(<<"2", "0", "2", "4", "-", "2", "5">>, <<"8", "2">>, <<"2", "7", ".", "1">>),
                                             PerGameRow(<<"2", "0", "2", "5", "-", "2", "6">>, <<"1", "2">>, <<"3", "0", ".", "4", "5", "6", "2">>)>>)),
      PlainPage("per_game" :> PerGameTable(<<PerGameRow(<<"2", "0", "2", "3", "-", "2", "4">>, <<"8", "2">>, <<"2", "7", ".", "1">>)>>)),
      PlainPage(<<>>) }

\* the teams collection, and the abbreviations in sorted order
TeamRows == ("BOS" :> "team-BOS") @@ ("PHX" :> "team-PHX")

TeamOrder == <<"BOS", "PHX">>

-----------------------------------------------------------------------------
(* scrape_players.py: main, scrape_rosters, scrape_averages                *)

RATE_LIMIT_TENTHS == 35

InitPlayers ==
    /\ inp = NoSoup /\ out = Pending
    /\ script = "players"
    /\ args \in [season : SeasonArgs, limit : {0}, backfill : {FALSE},
                 team : {"", "BOS", "NYK"}, averages : BOOLEAN]
    /\ db_seasons \in {{}, SeasonArgs}
    /\ db_teams \in {<<>>, TeamRows}
    /\ db_games = <<>>
    /\ db_box_scores = {} /\ db_players = {} /\ db_averages = {}
    /\ pc = "start" /\ work = <<>> /\ idx = 0 /\ success = 0
    /\ page = NoSoup /\ batch = <<>> /\ update_data = <<>> /\ all_players = <<>>
    /\ log = <<>>

\* sorted(teams.items()) as (abbrev, team_id) pairs
SortedTeams(teams) ==
    LET abbrevs == SelectSeq(TeamOrder, LAMBDA a : a \in DOMAIN teams)
    IN  [i \in 1..Len(abbrevs) |-> <<abbrevs[i], teams[abbrevs[i]]>>]

\* scrape_rosters: load_teams, sys.exit(1) without teams or with a --team
\* that is not among them, else the list of teams to visit
LoadTeams ==
    /\ script = "players" /\ pc = "start"
    /\ IF DOMAIN db_teams = {}
       THEN pc' = "exit_no_teams" /\ UNCHANGED <<work, idx>>
       ELSE IF args.team # "" /\ args.team \notin DOMAIN db_teams
       THEN pc' = "exit_unknown_team" /\ UNCHANGED <<work, idx>>
       ELSE /\ work' = SortedTeams(IF args.team # ""
                                   THEN (args.team :> db_teams[args.team])
                                   ELSE db_teams)
            /\ idx' = 1
            /\ pc' = "roster_loop"
    /\ UNCHANGED <<pure_vars, script, args, db_seasons, db_teams, db_games, db_box_scores,
                   db_players, db_averages, success, page, batch, update_data,
                   all_players, log>>

\* the same step without the sleep
RosterSleep_NoSleep ==
    /\ script = "players" /\ pc = "roster_loop"
    /\ idx <= Len(work)
    /\ pc' = "roster_fetch"
    /\ UNCHANGED <<pure_vars, script, args, db_seasons, db_teams, db_games, db_box_scores,
                   db_players, db_averages, work, idx, success, page, batch, update_data,
                   all_players, log>>

\* scrape_rosters: time.sleep(RATE_LIMIT_SECONDS)
RosterSleep ==
    /\ script = "players" /\ pc = "roster_loop"
    /\ idx <= Len(work)
    /\ log' = Append(log, SleepEv(RATE_LIMIT_TENTHS))
    /\ pc' = "roster_fetch"
    /\ UNCHANGED <<pure_vars, script, args, db_seasons, db_teams, db_games, db_box_scores,
                   db_players, db_averages, work, idx, success, page, batch, update_data,
                   all_players>>

\* scrape_rosters: fetch_roster_page and parse_roster; the players found are
\* appended to all_players with the team's id
FetchRosterPage ==
    /\ script = "players" /\ pc = "roster_fetch"
    /\ \E status \in Statuses, soup \in RosterPages :
         LET bref_abbrev == to_bref(work[idx][1])
             team_id     == work[idx][2]
             roster      == parse_roster(soup)
         IN  /\ log' = Append(log, GetEv(RosterUrl(bref_abbrev, args.season), status))
             /\ all_players' =
                    IF status # 200 THEN all_players
                    ELSE all_players \o [i \in 1..Len(roster) |->
                                            [team_id |-> team_id] @@ roster[i]]
    /\ idx' = idx + 1
    /\ pc' = "roster_loop"
    /\ UNCHANGED <<pure_vars, script, args, db_seasons, db_teams, db_games, db_box_scores,
                   db_players, db_averages, work, success, page, batch, update_data>>

\* scrape_rosters: no player was found; main prints Done
NoPlayersFound ==
    /\ script = "players" /\ pc = "roster_loop"
    /\ idx > Len(work)
    /\ all_players = <<>>
    /\ pc' = "done"
    /\ UNCHANGED <<pure_vars, script, args, db_seasons, db_teams, db_games, db_box_scores,
                   db_players, db_averages, work, idx, success, page, batch, update_data,
                   all_players, log>>

\* a row of the players upsert (headshot_url, looked up in the nba_api name
\* list, is left out)
PlayerUpsertRow(p) ==
    [provider |-> "bref", provider_player_id |-> slug_to_provider_id(p.slug),
     first_name |-> p.first_name, last_name |-> p.last_name, position |-> p.position,
     jersey_number |-> p.jersey_number, team_id |-> p.team_id, height |-> p.height]

\* on_conflict="provider,provider_player_id"
PlayerKey(r) == <<r.provider, r.provider_player_id>>

\* scrape_rosters: the players upsert; it returns all_players, or [] when the
\* upsert raised; main goes on to scrape_averages with --averages and players
UpsertPlayers ==
    /\ script = "players" /\ pc = "roster_loop"
    /\ idx > Len(work)
    /\ all_players # <<>>
    /\ \E ok \in BOOLEAN :
         LET upsert_rows == [i \in 1..Len(all_players) |-> PlayerUpsertRow(all_players[i])]
             keys        == [i \in 1..Len(upsert_rows) |-> PlayerKey(upsert_rows[i])]
         IN  /\ log' = Append(log, UpsertEv("players", keys, ok))
             /\ db_players' = IF ok THEN db_players \cup {keys[i] : i \in 1..Len(keys)}
                              ELSE db_players
             /\ all_players' = IF ok THEN all_players ELSE <<>>
             /\ pc' = IF ok /\ args.averages THEN "averages" ELSE "done"
    /\ UNCHANGED <<pure_vars, script, args, db_seasons, db_teams, db_games, db_box_scores,
                   db_averages, work, idx, success, page, batch, update_data>>

\* pid_to_uuid.get(provider_id): the id of the players row, "" for None
PlayerUuid(provider_id) ==
    IF <<"bref", provider_id>> \in db_players THEN "player-" \o ToString(provider_id) ELSE ""

\* scrape_averages: load_season (sys.exit(1) without a row), then the
\* players query
LoadSeason ==
    /\ script = "players" /\ pc = "averages"
    /\ IF args.season \notin db_seasons
       THEN pc' = "exit_no_season" /\ UNCHANGED <<work, idx, batch>>
       ELSE /\ work' = all_players
            /\ idx' = 1
            /\ batch' = <<>>
            /\ pc' = "avg_loop"
    /\ UNCHANGED <<pure_vars, script, args, db_seasons, db_teams, db_games, db_box_scores,
                   db_players, db_averages, success, page, update_data, all_players, log>>

\* scrape_averages: a player without a players row is skipped, for the
\* others time.sleep(RATE_LIMIT_SECONDS)
AveragesSleep ==
    /\ script = "players" /\ pc = "avg_loop"
    /\ idx <= Len(work)
    /\ IF PlayerUuid(slug_to_provider_id(work[idx].slug)) = ""
       THEN idx' = idx + 1 /\ UNCHANGED <<pc, log>>
       ELSE /\ log' = Append(log, SleepEv(RATE_LIMIT_TENTHS))
            /\ pc' = "avg_fetch"
            /\ UNCHANGED idx
    /\ UNCHANGED <<pure_vars, script, args, db_seasons, db_teams, db_games, db_box_scores,
                   db_players, db_averages, work, success, page, batch, update_data,
                   all_players>>

\* on_conflict="player_id,season_id"
AverageKey(r) == <<r.player_id, r.season_id>>

\* scrape_averages: fetch_player_page and parse_season_averages
FetchPlayerPage ==
    /\ script = "players" /\ pc = "avg_fetch"
    /\ \E status \in Statuses, soup \in PlayerPages :
         LET slug == work[idx].slug
             avgs == parse_season_averages(soup, args.season)
         IN  /\ log' = Append(log, GetEv(PlayerUrl(slug), status))
             /\ IF status = 200 /\ avgs.k = "raise"
                THEN pc' = "crashed" /\ UNCHANGED <<idx, batch>>
                ELSE /\ batch' =
                          IF status = 200 /\ avgs.k = "dict"
                          THEN Append(batch,
                                      [player_id |-> PlayerUuid(slug_to_provider_id(slug)),
                                       season_id |-> "season-" \o ToString(args.season),
                                       games |-> avgs.d.games, ppg |-> avgs.d.ppg])
                          ELSE batch
                     /\ idx' = idx + 1
                     /\ pc' = "avg_loop"
    /\ UNCHANGED <<pure_vars, script, args, db_seasons, db_teams, db_games, db_box_scores,
                   db_players, db_averages, work, success, page, update_data, all_players>>

\* scrape_averages: nothing to insert
NoAverages ==
    /\ script = "players" /\ pc = "avg_loop"
    /\ idx > Len(work)
    /\ batch = <<>>
    /\ pc' = "done"
    /\ UNCHANGED <<pure_vars, script, args, db_seasons, db_teams, db_games, db_box_scores,
                   db_players, db_averages, work, idx, success, page, batch, update_data,
                   all_players, log>>

\* scrape_averages: the player_season_averages upsert
UpsertAverages ==
    /\ script = "players" /\ pc = "avg_loop"
    /\ idx > Len(work)
    /\ batch # <<>>
    /\ \E ok \in BOOLEAN :
         LET keys == [i \in 1..Len(batch) |-> AverageKey(batch[i])]
         IN  /\ log' = Append(log, UpsertEv("player_season_averages", keys, ok))
             /\ db_averages' = IF ok THEN db_averages \cup {keys[i] : i \in 1..Len(keys)}
                               ELSE db_averages
    /\ pc' = "done"
    /\ UNCHANGED <<pure_vars, script, args, db_seasons, db_teams, db_games, db_box_scores,
                   db_players, work, idx, success, page, batch, update_data, all_players>>

NextPlayers ==
    \/ LoadTeams
    \/ RosterSleep
    \/ FetchRosterPage
    \/ NoPlayersFound
    \/ UpsertPlayers
    \/ LoadSeason
    \/ AveragesSleep
    \/ FetchPlayerPage
    \/ NoAverages
    \/ UpsertAverages

SpecPlayers == InitPlayers /\ [][NextPlayers]_vars

-----------------------------------------------------------------------------
(* Either script                                                           *)

Init == InitBox \/ InitPlayers

Next == NextBox \/ NextPlayers

Spec == Init /\ [][Next]_vars

-----------------------------------------------------------------------------
(* Properties of the runs                                                  *)

Scraping == script = "box" /\ ~args.backfill

LastEv(l) == l[Len(l)]

Logged(l, l2) == Len(l2) = Len(l) + 1

IsWrite(e) == e.ev \in {"upsert", "update"}

\* C2: when the page fetch of a game answers with a status other than 200,
\* scrape_game returns False (the game is not counted, the loop moves on) and
\* no write is issued for that game: box_scores and games stay as they are
\* and the request that follows in the log, if any, is the next game's sleep.
C2_FailedFetchNoWrite ==
    /\ [][ (Scraping /\ pc = "fetch" /\ Logged(log, log')
            /\ LastEv(log').ev = "get" /\ LastEv(log').n # 200)
           => /\ success' = success /\ idx' = idx + 1 /\ pc' = "loop"
              /\ batch' = <<>> /\ update_data' = <<>>
              /\ db_box_scores' = db_box_scores /\ db_games' = db_games ]_vars
    /\ [](Scraping =>
            \A i \in 1..Len(log) :
                (log[i].ev = "get" /\ log[i].n # 200 /\ i < Len(log)) => log[i + 1].ev = "sleep")

\* the first game answered 404, the second one is in progress, nothing written
C2_Witness ==
    /\ Scraping /\ Len(work) = 2 /\ idx = 2
    /\ Len(log) = 3
    /\ log[2].ev = "get" /\ log[2].n = 404
    /\ log[3].ev = "sleep"
    /\ success = 0 /\ db_box_scores = {}

\* the URLs requested so far, in order
RECURSIVE Requested(_)
Requested(l) ==
    IF l = <<>> THEN <<>>
    ELSE IF Head(l).ev = "get" THEN <<Head(l).url>> \o Requested(Tail(l))
    ELSE Requested(Tail(l))

\* C3 as stated: once a box-score run has ended, every game of the work list
\* has been fetched exactly once, in work-list order, whatever happened to
\* the games before it.
C3_AsClaimed ==
    (Scraping /\ pc \in {"done", "crashed"}) =>
        Requested(log) = [i \in 1..Len(work) |->
                             BoxScoreUrl(work[i].home_team.abbreviation, work[i].game_date_utc)]

\* C4 as stated: whenever a write issued while scraping a game raises, the
\* game is not counted in the success count.
C4_AsClaimed ==
    [][ (Scraping /\ Logged(log, log') /\ IsWrite(LastEv(log')) /\ ~LastEv(log').ok)
        => success' = success ]_vars

\* the process has ended by sys.exit(1) or by an exception nobody caught
EndedEarly == pc \in {"exit_no_season", "exit_no_teams", "exit_unknown_team", "crashed"}

\* a box-score table of the page has no header row
BrokenHeader(soup) ==
    \E id \in DOMAIN soup.tables :
        /\ id \notin {"line_score", "roster", "per_game"}
        /\ ~soup.tables[id].thead.present \/ soup.tables[id].thead.rows = <<>>

HasRequest(l) == \E i \in 1..Len(l) : l[i].ev = "get" \/ IsWrite(l[i])

\* C6 as stated: in both scripts and every mode, a run whose season has no
\* row issues no HTTP request and no write.
C6_AsClaimed == args.season \notin db_seasons => ~HasRequest(log)

\* C6 (amended): in the box-score script (both modes) a run whose season has
\* no row ends at the season lookup, before any HTTP request and any write.
\* The players script looks the season up only with --averages and only
\* after the roster pages were requested and the players upsert succeeded:
\* there the run ends before any player page is requested and before the
\* averages upsert; without --averages the season is not looked up at all.
C6_SeasonLookup ==
    /\ (script = "box" /\ args.season \notin db_seasons) =>
          /\ pc \in {"start", "exit_no_season"}
          /\ log = <<>>
    /\ (script = "players" /\ args.season \notin db_seasons) =>
          /\ pc \notin {"avg_loop", "avg_fetch"}
          /\ \A i \in 1..Len(log) :
                /\ log[i].ev = "get" => log[i].url.site = "teams"
                /\ IsWrite(log[i]) => log[i].what = "players"
    /\ (script = "players" /\ pc = "exit_no_season") =>
          /\ args.averages
          /\ Len(log) >= 3
          /\ LastEv(log).ev = "upsert" /\ LastEv(log).what = "players" /\ LastEv(log).ok
    /\ (script = "players" /\ ~args.averages) => pc # "exit_no_season"

\* the players script ended on the missing season after rosters were written
C6_Witness ==
    /\ script = "players" /\ pc = "exit_no_season"
    /\ args.season \notin db_seasons
    /\ db_players # {}
    /\ \E i \in 1..Len(log) : log[i].ev = "get" /\ log[i].ok

\* C7: every HTTP GET to the external site is directly preceded by a sleep of
\* 3.5 s, so no two GETs occur without a sleep between them.
C7_SleepBeforeGet ==
    \A i \in 1..Len(log) :
        log[i].ev = "get" =>
            /\ i >= 2
            /\ log[i - 1].ev = "sleep"
            /\ log[i - 1].n = 35

\* two pages have been requested in one run
C7_Witness ==
    /\ Len(log) >= 4
    /\ \E i, j \in 1..Len(log) : i < j /\ log[i].ev = "get" /\ log[j].ev = "get"

\* C8 as stated: no batch handed to an upsert holds two rows with the same
\* conflict key.
C8_AsClaimed ==
    \A e \in 1..Len(log) :
        log[e].ev = "upsert" =>
            \A i, j \in 1..Len(log[e].keys) :
                log[e].keys[i] = log[e].keys[j] => i = j

-----------------------------------------------------------------------------
(* scrape_game: the records of one team from its basic and advanced tables *)

MaxMergeRows == 2

AdvId == "box-BOS-game-advanced"

INF == <<"i", "n", "f">>

StatRow(name, mp, pts) == Tr({}, <<Th(PLAYER, name), Td(MP, mp), Td(PTS, pts)>>)

\* basic rows: the divider, two players, a player without minutes whose
\* points cell reads "inf", a player who did not play
MergeBasicRows ==
    { SeparatorRow, PlayerRow(NameAl), PlayerRow(NameBo), StatRow(NameCy, <<>>, INF), DnpRow }

\* advanced rows: one for each of two players, and a second one for the first
MergeAdvRows ==
    { AdvRow(NameAl, <<".", "6", "1", "2">>), AdvRow(NameBo, <<" ", ".", "5", " ">>),
      AdvRow(NameAl, <<".", "4", "5", "6", "2">>) }

\* the advanced table of the page: absent, without a header section, or whole
MergeAdvTables ==
    { <<>>, AdvId :> [thead |-> NoHead, tbody |-> Body(<<>>)] }
    \cup { AdvId :> AdvTable(a) : a \in SeqsUpTo(MergeAdvRows, MaxMergeRows) }

MergeSoups ==
    { [tables |-> adv] : adv \in MergeAdvTables }
    \cup { [tables |-> (BasicId :> BasicTable(b)) @@ adv]
            : b \in SeqsUpTo(MergeBasicRows, MaxMergeRows), adv \in MergeAdvTables }

InitMerge ==
    /\ inp \in MergeSoups
    /\ out = Pending
    /\ NoRun

\* one round of the loop over the teams, for the home team of game g1
MergeTeam ==
    /\ out = Pending
    /\ out' = TeamBoxRows(inp, "g1", "BOS", "team-BOS")
    /\ UNCHANGED inp
    /\ UNCHANGED run_vars

NextMerge == MergeTeam

SpecMerge == InitMerge /\ [][NextMerge]_vars

\* the page has a basic table for the team
Merged == out # Pending /\ HasTable(inp, BasicId)

\* the body rows of the advanced table, none when the page has no such table
AdvBody == IF HasTable(inp, AdvId) THEN inp.tables[AdvId].tbody.rows ELSE <<>>

\* the advanced rows that carry the player name of basic row i
AdvRowsOf(i) == {j \in 1..Len(AdvBody) : Strip(AdvBody[j].cells[1].text) = NameOfRow(i)}

\* C11 as stated: for a team, every row of the basic table that is a player's
\* row yields exactly one record, in order, with the player's name, the basic
\* fields of that row (minutes, points), the advanced field of an advanced
\* row of the same name (absent when there is none) and starter = TRUE
\* exactly when no separator row precedes the row.
C11_AsClaimed ==
    Merged =>
        /\ out.k = "list"
        /\ Len(out.rows) = Cardinality(KeptRows)
        /\ \A k \in 1..Len(out.rows) :
             LET i   == KthOf(KeptRows, k)
                 tr  == TableBody[i]
                 rec == out.rows[k]
             IN  /\ rec.player_name = NameOfRow(i)
                 /\ rec.minutes = OrNone(Some(Strip(tr.cells[2].text)))
                 /\ rec.points = safe_int(Some(tr.cells[3].text))
                 /\ rec.points.k \in {"int", "none"}
                 /\ IF AdvRowsOf(i) = {} THEN rec.ts_pct = None
                    ELSE \E j \in AdvRowsOf(i) :
                            rec.ts_pct = safe_float(Some(AdvBody[j].cells[2].text))
                 /\ rec.starter = ~(\E j \in 1..(i - 1) : IsSeparator(j))

\* the same with the calls left aside in which an exception escaped
C11_WhenNothingRaised == (Merged /\ out.k = "raise") \/ C11_AsClaimed

-----------------------------------------------------------------------------
(* safe_int and safe_float: the inputs                                     *)

MaxNumLen == 3

NumChars == {"0", "1", "5", ".", "-", " ", "i", "n", "f", "a"}

\* texts with more than three decimals
LongDecimals ==
    { <<"1", ".", "2", "3", "4", "6">>, <<"3", "0", ".", "4", "5", "6", "2">>,
      <<"-", ".", "0", "0", "0", "4">>, <<" ", ".", "6", "1", "2", "9", " ">> }

CoerceInputs ==
    {Absent} \cup {Some(t) : t \in SeqsUpTo(NumChars, MaxNumLen) \cup LongDecimals}

InitCoerce ==
    /\ inp \in CoerceInputs
    /\ out = Pending
    /\ NoRun

\* both coercions applied to one value
Coerce ==
    /\ out = Pending
    /\ out' = [int |-> safe_int(inp), float |-> safe_float(inp)]
    /\ UNCHANGED inp
    /\ UNCHANGED run_vars

NextCoerce == Coerce

SpecCoerce == InitCoerce /\ [][NextCoerce]_vars

\* C12 as stated: for every input safe_int and safe_float do not raise;
\* safe_int returns an integer or absent, safe_float a finite number rounded
\* to 3 decimal places (within half a thousandth of the number read) or
\* absent.
C12_AsClaimed ==
    out # Pending =>
        /\ out.int.k \in {"int", "none"}
        /\ out.float.k \in {"float", "none"}
        /\ out.float.k = "float" =>
              LET f == ParseFloat(inp.t)
                  d == out.float.v * Pow10(f.scale) - f.sign * f.num * 1000
              IN  /\ f.k = "fin"
                  /\ 2 * d <= Pow10(f.scale) /\ 2 * d >= 0 - Pow10(f.scale)

-----------------------------------------------------------------------------
(* Pages with missing structures, and the six parsers applied to them      *)

\* the team's basic table: absent, without header section, with a header
\* section without rows, without body, with an empty body, with a row
\* without cells, with a row of one cell, whole
BoxPieces ==
    { <<>>,
      BasicId :> [thead |-> NoHead, tbody |-> Body(<<PlayerRow(NameAl)>>)],
      BasicId :> [thead |-> Thead(<<>>), tbody |-> Body(<<PlayerRow(NameAl)>>)],
      BasicId :> [thead |-> Thead(<<GroupRow, KeyRow3>>), tbody |-> NoBody],
      BasicId :> BasicTable(<<>>),
      BasicId :> BasicTable(<<Tr({}, <<>>)>>),
      BasicId :> BasicTable(<<Tr({}, <<Th(PLAYER, NameAl)>>)>>),
      BasicId :> BasicTable(<<PlayerRow(NameAl)>>) }

LinePieces ==
    { <<>>,
      "line_score" :> [thead |-> NoHead, tbody |-> NoBody],
      "line_score" :> LineTable(<<>>),
      "line_score" :> LineTable(<<LineRow(<<T25, T30, T28, T27>>)>>),
      "line_score" :> LineTable(<<LineRow(<<>>), LineRow(<<T30, T25>>)>>),
      "line_score" :> LineTable(<<LineRow(<<T25, T30, T28, T27, T7, T0>>),
                                  LineRow(<<T30, T25, T27, T28, T0, T0>>)>>) }

RosterPieces ==
    { <<>>,
      "roster" :> [thead |-> Thead(<<>>), tbody |-> NoBody],
      "roster" :> RosterTable(<<>>),
      "roster" :> RosterTable(<<Tr({}, <<>>)>>),
      "roster" :> RosterTable(<<Tr({}, <<Td(POS, <<"P", "G">>)>>)>>),
      "roster" :> RosterTable(<<Tr({}, <<LinkCell("td", PLAYER, NameAl, Link(HrefAl))>>)>>) }

PerGamePieces ==
    { <<>>,
      "per_game" :> [thead |-> Thead(<<>>), tbody |-> NoBody],
      "per_game" :> PerGameTable(<<>>),
      "per_game" :> PerGameTable(<<Tr({}, <<Td(G, <<"8">>)>>)>>),
      "per_game" :> PerGameTable(<<Tr({}, <<Th(SEASON, SeasonStr(2025))>>)>>) }

ScoreboxPieces ==
    { NoScorebox,
      [present |-> TRUE, divs |-> <<<<"J", "a", "n", " ", "1", "5">>>>],
      [present |-> TRUE, divs |-> <<<<"J", "a", "n", " ", "1", "5">>, <<"T", "D", " ", "G", "a", "r", "d", "e", "n">>>>] }

SparsePages ==
    { [tables |-> b @@ l @@ r @@ g, title |-> t, scorebox |-> sb, att |-> a]
        : b \in BoxPieces, l \in LinePieces, r \in RosterPieces, g \in PerGamePieces,
          t \in {Absent, Some(<<"B", "o", "x", " ", "S", "c", "o", "r", "e">>)},
          sb \in ScoreboxPieces,
          a \in {Absent, Some(ATTENDANCE \o <<":">>)} }

InitParsers ==
    /\ inp \in SparsePages
    /\ out = Pending
    /\ NoRun

\* every parser applied to the page
ParsePage ==
    /\ out = Pending
    /\ out' = [box        |-> parse_box_score_table(inp, BasicId),
               quarters   |-> parse_quarter_scores(inp),
               arena      |-> ParseArena(inp),
               attendance |-> ParseAttendance(inp),
               round      |-> parse_playoff_round(inp),
               roster     |-> parse_roster(inp),
               averages   |-> parse_season_averages(inp, 2025)]
    /\ UNCHANGED inp
    /\ UNCHANGED run_vars

NextParsers == ParsePage

SpecParsers == InitParsers /\ [][NextParsers]_vars

\* the table id is on the page with a body
HasBody(id) == HasTable(inp, id) /\ inp.tables[id].tbody.present

\* C13 as stated: on a page in which a table, its header section, its body, a
\* row or a cell is absent, no parser raises, and a parser whose table,
\* header section or body is absent returns an empty or absent result.
C13_AsClaimed ==
    out # Pending =>
        /\ out.box.k = "list"
        /\ (~HasBody(BasicId) \/ ~inp.tables[BasicId].thead.present
                \/ inp.tables[BasicId].thead.rows = <<>>) => out.box.rows = <<>>
        /\ out.quarters.k \in {"none", "dict"}
        /\ (~HasBody("line_score") \/ Len(inp.tables["line_score"].tbody.rows) < 2)
              => out.quarters = NoResult
        /\ (~inp.scorebox.present \/ Len(inp.scorebox.divs) < 2) => out.arena = <<>>
        /\ out.attendance.k \in {"int", "none"}
        /\ ~inp.att.some => out.attendance = None
        /\ ~inp.title.some => out.round = ""
        /\ ~HasBody("roster") => out.roster = <<>>
        /\ out.averages.k \in {"none", "dict"}
        /\ ~HasBody("per_game") => out.averages = NoResult

\* the same with the basic tables left aside whose header section is absent
\* or has no row
C13_WithHeader ==
    (out # Pending /\ HasTable(inp, BasicId)
        /\ (~inp.tables[BasicId].thead.present \/ inp.tables[BasicId].thead.rows = <<>>))
    \/ C13_AsClaimed

-----------------------------------------------------------------------------
(* Roster pages: the inputs of parse_roster                                *)

MaxRosterRows == 3

HrefCoach == <<"/", "c", "o", "a", "c", "h", "e", "s", "/", "e", "c", "k", "d", "e", "9", "9", "c", ".", "h", "t", "m", "l">>

HrefUpper == <<"/", "p", "l", "a", "y", "e", "r", "s", "/", "D", "/", "D", "o", "e", "c", "y", "0", "1", ".", "h", "t", "m", "l">>

\* roster rows: two players with profile links (one absolute), a player
\* without link, with a link without href, with a link to a coach page, with
\* a player URL in capitals, and a row without player cell
RosterRowKinds ==
    { RosterRow(NameAl, Link(HrefAl), <<"0">>, <<"P", "F">>),
      RosterRow(NameBo, Link(HrefBo), <<>>, <<"P", "G">>),
      RosterRow(NameCy, NoLink, <<"7">>, <<"P", "G">>),
      RosterRow(NameCy, [present |-> TRUE, href |-> Absent], <<"7">>, <<"P", "G">>),
      RosterRow(NameDee, Link(HrefCoach), <<"7">>, <<"C">>),
      RosterRow(NameCy, Link(HrefUpper), <<"7">>, <<"C">>),
      Tr({}, <<Td(POS, <<"P", "G">>)>>) }

RosterSoups ==
    { PlainPage(<<>>), PlainPage("roster" :> [thead |-> Thead(<<>>), tbody |-> NoBody]) }
    \cup { PlainPage("roster" :> RosterTable(b)) : b \in SeqsUpTo(RosterRowKinds, MaxRosterRows) }

InitRoster ==
    /\ inp \in RosterSoups
    /\ out = Pending
    /\ NoRun

ParseRoster ==
    /\ out = Pending
    /\ out' = Rows(parse_roster(inp))
    /\ UNCHANGED inp
    /\ UNCHANGED run_vars

NextRoster == ParseRoster

SpecRoster == InitRoster /\ [][NextRoster]_vars

RosterParsed == out # Pending /\ HasTable(inp, "roster") /\ inp.tables["roster"].tbody.present

RosterBody == inp.tables["roster"].tbody.rows

\* the row has a player cell with a name in it
HasPlayerName(i) ==
    \E c \in 1..Len(RosterBody[i].cells) :
        RosterBody[i].cells[c].stat = PLAYER /\ Strip(RosterBody[i].cells[c].text) # <<>>

\* the texts s for which /players/<a-z>/s.html occurs in href, s made of a-z0-9
SlugsIn(href) ==
    { SubSeq(href, ab[1], ab[2]) :
        ab \in { x \in (1..Len(href)) \X (1..Len(href)) :
                   /\ x[1] <= x[2] /\ x[1] >= 12
                   /\ \A k \in x[1]..x[2] : IsLowerOrDigit(href[k])
                   /\ SubSeq(href, x[1] - 11, x[1] - 3) = PLAYERS_PATH
                   /\ IsLower(href[x[1] - 2]) /\ href[x[1] - 1] = "/"
                   /\ x[2] + 5 <= Len(href)
                   /\ SubSeq(href, x[2] + 1, x[2] + 5) = DOT_HTML } }

\* the slugs that can be extracted from the profile link of row i
SlugsOfRow(i) ==
    UNION { IF RosterBody[i].cells[c].link.present /\ RosterBody[i].cells[c].link.href.some
            THEN SlugsIn(RosterBody[i].cells[c].link.href.t) ELSE {}
            : c \in {x \in 1..Len(RosterBody[i].cells) : RosterBody[i].cells[x].stat = PLAYER} }

\* the rows that name a player and carry a slug
RosterKept == {i \in 1..Len(RosterBody) : HasPlayerName(i) /\ SlugsOfRow(i) # {}}

\* C14: parse_roster does not raise; a row from which no slug can be
\* extracted (no link, a link without href, an href that does not match
\* the player-URL pattern) yields no record; every record has a non-empty
\* slug, taken from the link of its row; and every other row that names a
\* player yields its record, in the order of the rows.
C14_SluglessRowsDropped ==
    RosterParsed =>
        /\ out.k = "list"
        /\ Len(out.rows) = Cardinality(RosterKept)
        /\ \A k \in 1..Len(out.rows) :
             LET i == KthOf(RosterKept, k)
             IN  /\ out.rows[k].slug # <<>>
                 /\ out.rows[k].slug \in SlugsOfRow(i)
                 /\ out.rows[k].first_name \o <<" ">> \o out.rows[k].last_name
                        = Strip(RosterBody[i].cells[2].text)

\* a player, a row without link, a player: the first and the third are output
C14_Witness ==
    /\ RosterParsed
    /\ Len(RosterBody) = 3
    /\ HasPlayerName(2) /\ SlugsOfRow(2) = {}
    /\ RosterKept = {1, 3}
    /\ Len(out.rows) = 2
    /\ out.rows[1].slug = <<"f", "o", "r", "d", "a", "l", "0", "1">>
    /\ out.rows[2].slug = <<"c", "r", "y", "b", "o", "0", "1">>

-----------------------------------------------------------------------------
(* The season argument of the players script: the roster URL and the       *)
(* per_game row                                                            *)

MaxSeasonRows == 2

SeasonInputs == {1999, 2009, 2024, 2025}

\* the games cell of the row of the season that starts in year y
GamesOf(y) == NatText((y % 100) + 1)

\* per_game rows of the seasons around the arguments
SeasonRowKinds ==
    { PerGameRow(SeasonStr(y), GamesOf(y), <<"2", "7", ".", "1">>)
        : y \in {1998, 1999, 2008, 2009, 2023, 2024, 2025} }

SeasonCases ==
    { [season |-> y, soup |-> PlainPage("per_game" :> PerGameTable(b))]
        : y \in SeasonInputs, b \in SeqsUpTo(SeasonRowKinds, MaxSeasonRows) }

InitSeason ==
    /\ inp \in SeasonCases
    /\ out = Pending
    /\ NoRun

\* fetch_roster_page and parse_season_averages for one season argument
SeasonLookups ==
    /\ out = Pending
    /\ out' = [url  |-> RosterUrl("BOS", inp.season),
               avgs |-> parse_season_averages(inp.soup, inp.season)]
    /\ UNCHANGED inp
    /\ UNCHANGED run_vars

NextSeason == SeasonLookups

SpecSeason == InitSeason /\ [][NextSeason]_vars

\* the label "(S-1)-(last two digits of S)"
EndingIn(S) == NatText(S - 1) \o <<"-">> \o LastTwo(NatText(S))

\* the rows of the per_game table of the input with that season label
RowsLabelled(label) ==
    { i \in 1..Len(inp.soup.tables["per_game"].tbody.rows) :
        Strip(inp.soup.tables["per_game"].tbody.rows[i].cells[1].text) = label }

\* the result of parse_season_averages is read from the first row with the label
AveragesFrom(label) ==
    IF RowsLabelled(label) = {} THEN out.avgs = NoResult
    ELSE LET i == CHOOSE x \in RowsLabelled(label) : \A y \in RowsLabelled(label) : x <= y
         IN  /\ out.avgs.k = "dict"
             /\ out.avgs.d.games
                    = safe_int(Some(inp.soup.tables["per_game"].tbody.rows[i].cells[2].text))

\* C15 as stated: for the season argument S the roster URL uses the year S
\* and the averages are those of the row labelled "(S-1)-(last two digits of
\* S)", "2024-25" for S = 2025.
C15_AsClaimed ==
    out # Pending =>
        /\ out.url.year = inp.season
        /\ AveragesFrom(EndingIn(inp.season))

\* what the two functions do: the year S + 1 and the label of the season that
\* starts in S
C15_SeasonStartingIn ==
    out # Pending =>
        /\ out.url.year = inp.season + 1
        /\ AveragesFrom(EndingIn(inp.season + 1))

-----------------------------------------------------------------------------
(* Several runs of the box-score script, one after the other, against the  *)
(* same store                                                              *)

\* the process has ended
RunOver == pc \in {"done", "crashed", "exit_no_season"}

\* the script is started again: main parses new arguments; the store is as
\* the earlier runs left it
NewRun ==
    /\ script = "box" /\ RunOver
    /\ args' \in [season : SeasonArgs, limit : {0, 1}, backfill : BOOLEAN, team : {""},
                  averages : {FALSE}]
    /\ pc' = "start" /\ work' = <<>> /\ idx' = 0 /\ success' = 0
    /\ page' = NoSoup /\ batch' = <<>> /\ update_data' = <<>>
    /\ log' = <<>>
    /\ UNCHANGED <<pure_vars, script, db_seasons, db_teams, db_games, db_box_scores,
                   db_players, db_averages, all_players>>

NextRuns == NextBox \/ NewRun

SpecRuns == InitBox /\ [][NextRuns]_vars

HasRows(id) == \E key \in db_box_scores : key[1] = id

\* C16: over any sequence of box-score runs, scrape_game changes a games row
\* only in the step that follows the successful box_scores upsert of that
\* same game in the same call, changes no other row, and returns in that
\* step (one update per call at most); a game whose home_q1 becomes non-null
\* has box-score rows in the store; and a call whose fetch failed, whose
\* parse gave no row or whose upsert failed leaves the games rows as they
\* were.
C16_UpdateAfterUpsert ==
    /\ [][ /\ (Scraping /\ db_games' # db_games) =>
                /\ pc = "update"
                /\ log # <<>> /\ LastEv(log).ev = "upsert" /\ LastEv(log).what = "box_scores"
                /\ LastEv(log).ok /\ LastEv(log).keys # <<>>
                /\ \A i \in 1..Len(LastEv(log).keys) : LastEv(log).keys[i][1] = work[idx].id
                /\ \A id \in GameIds \ {work[idx].id} : db_games'[id] = db_games[id]
                /\ idx' = idx + 1 /\ pc' = "loop"
           /\ \A id \in GameIds :
                (IsNull(id, "home_q1") /\ "home_q1" \in DOMAIN db_games'[id].cols) =>
                    /\ Scraping /\ id = work[idx].id
                    /\ \E key \in db_box_scores' : key[1] = id
           /\ (Scraping /\ pc \in {"fetch", "upsert"}) => db_games' = db_games ]_vars
    /\ [](Scraping =>
            \A i, j \in 1..Len(log) :
                (log[i].ev = "update" /\ log[j].ev = "update" /\ log[i].keys = log[j].keys)
                    => i = j)

\* a later run: the first game has left the work list with its rows in the
\* store, the second game has just been updated after its upsert
C16_Witness ==
    /\ Scraping /\ args.limit = 0
    /\ work = <<GameRows[2]>> /\ idx = 2 /\ pc = "loop"
    /\ HasRows("g1") /\ HasRows("g2")
    /\ "home_q1" \in DOMAIN db_games["g1"].cols
    /\ "home_q1" \in DOMAIN db_games["g2"].cols
    /\ Len(log) = 4
    /\ log[3].ev = "upsert" /\ log[3].ok
    /\ log[4].ev = "update" /\ log[4].ok /\ log[4].keys = <<"g2">>

====
